---- MODULE Spec2Model ----
(***************************************************************************)
(* ARM performance-counter support (arch/arm/kernel/perf_event.c):         *)
(* hardware reservation shared by all CPUs, the per-CPU counter table,     *)
(* period programming and delta accounting.                                *)
(***************************************************************************)
EXTENDS Integers, Sequences, FiniteSets, TLC

\* ------------------------------------------------------------------ bounds
NumCpus == 2
NumEvents == 2
MaxTicks == 1
MaxReads == 2
MaxIrqs == 2
MaxInit == 2

\* ------------------------------------------------------------- error codes
EPERM == 1
ENOENT == 2
EAGAIN == 11
EBUSY == 16
ENODEV == 19
EINVAL == 22
ENOSPC == 28

\* -------------------------------------------------- perf framework constants
PERF_TYPE_HARDWARE == 0
PERF_TYPE_HW_CACHE == 3
PERF_TYPE_RAW == 4
PERF_TYPE_SOFTWARE == 1

PERF_HES_STOPPED == "STOPPED"
PERF_HES_UPTODATE == "UPTODATE"

PERF_EVENT_STATE_OFF == -1
PERF_EVENT_STATE_INACTIVE == 0
PERF_EVENT_STATE_ACTIVE == 1

HW_OP_UNSUPPORTED == 65535
CACHE_OP_UNSUPPORTED == 65535

Min(a, b) == IF a < b THEN a ELSE b

SetMin(S) == CHOOSE x \in S : \A y \in S : x <= y

\* ---------------------------------------------------------- counter widths
\* The hardware counters are CounterBits wide (32 in the source); 64-bit
\* quantities are WordBits wide.  Both are scaled down, keeping
\* WordBits > CounterBits so that truncation to the counter width is real.
CounterBits == 3
WordExtra == 2
CounterMod == 2 ^ CounterBits
CounterMask == CounterMod - 1
WordBits == CounterBits + WordExtra
U64Mod == 2 ^ WordBits
max_period == CounterMod - 1

\* (u64) x : two's complement wrap of an integer to the word width
U64(x) == x % U64Mod
\* x & mask for a mask of the form 2^k - 1
BitAnd(x, mask) == x % (mask + 1)

\* ------------------------------------------------------------ the backend
\* Number of hardware counters of the backend: index 0 is the dedicated
\* cycle counter, 1 .. num_events-1 are the event counters.
num_events == 3
CounterIdx == 0 .. (num_events - 1)

ARMV7_PERFCTR_CPU_CYCLES == 255
ARMV7_PERFCTR_INSTR_EXECUTED == 8
ARMV7_PERFCTR_L1_DCACHE_ACCESS == 4
ARMV7_IDX_CYCLE_COUNTER == 0
RAW_EVENT_MASK == 255

PERF_COUNT_HW_MAX == 3
PERF_COUNT_HW_CACHE_MAX == 7
PERF_COUNT_HW_CACHE_OP_MAX == 3
PERF_COUNT_HW_CACHE_RESULT_MAX == 2

\* the backend's generic-event table
event_map ==
    [c \in 0 .. (PERF_COUNT_HW_MAX - 1) |->
        CASE c = 0 -> ARMV7_PERFCTR_CPU_CYCLES
          [] c = 1 -> ARMV7_PERFCTR_INSTR_EXECUTED
          [] OTHER -> HW_OP_UNSUPPORTED]

\* the backend's cache-event table
cache_map ==
    [t \in 0 .. (PERF_COUNT_HW_CACHE_MAX - 1) |->
      [o \in 0 .. (PERF_COUNT_HW_CACHE_OP_MAX - 1) |->
        [r \in 0 .. (PERF_COUNT_HW_CACHE_RESULT_MAX - 1) |->
            IF t = 0 /\ o = 0 THEN ARMV7_PERFCTR_L1_DCACHE_ACCESS + r
            ELSE CACHE_OP_UNSUPPORTED]]]

\* Values an out-of-bounds read past the end of event_map may yield.
StrayTableValues == {HW_OP_UNSUPPORTED, ARMV7_PERFCTR_INSTR_EXECUTED, 0}

\* the three fields of a cache config with the operation field left unmasked
cache_decode_op_unmasked(config) ==
    [cache_type |-> BitAnd(config, 255),
     cache_op |-> config \div 256,
     cache_result |-> BitAnd(config \div 65536, 255)]

\* the three fields armpmu_map_cache_event takes out of a cache config
cache_decode(config) ==
    [cache_type |-> BitAnd(config, 255),
     cache_op |-> BitAnd(config \div 256, 255),
     cache_result |-> BitAnd(config \div 65536, 255)]

\* armpmu_map_cache_event: the single result for a cache config
armpmu_map_cache_event(config) ==
    LET cache_type == cache_decode(config).cache_type
        cache_op == cache_decode(config).cache_op
        cache_result == cache_decode(config).cache_result
    IN  IF cache_type >= PERF_COUNT_HW_CACHE_MAX THEN -EINVAL
        ELSE IF cache_op >= PERF_COUNT_HW_CACHE_OP_MAX THEN -EINVAL
        ELSE IF cache_result >= PERF_COUNT_HW_CACHE_RESULT_MAX THEN -EINVAL
        ELSE IF cache_map[cache_type][cache_op][cache_result] = CACHE_OP_UNSUPPORTED
             THEN -ENOENT
        ELSE cache_map[cache_type][cache_op][cache_result]

\* armpmu_map_event: the set of results the build can produce; the table is
\* indexed with config unchecked, so a config beyond it reads a stray value.
armpmu_map_event(config) ==
    LET read == IF config \in DOMAIN event_map THEN {event_map[config]}
                ELSE StrayTableValues
    IN  {IF m = HW_OP_UNSUPPORTED THEN -ENOENT ELSE m : m \in read}

armpmu_map_raw_event(raw_event_mask, config) == BitAnd(config, raw_event_mask)

\* map_cpu_event: dispatch on the event type
map_cpu_event(attr) ==
    CASE attr.type = PERF_TYPE_HARDWARE -> armpmu_map_event(attr.config)
      [] attr.type = PERF_TYPE_HW_CACHE -> {armpmu_map_cache_event(attr.config)}
      [] attr.type = PERF_TYPE_RAW -> {armpmu_map_raw_event(RAW_EVENT_MASK, attr.config)}
      [] OTHER -> {-ENOENT}

\* backend allocator: the cycle-counter event may only use counter 0, every
\* other event takes the lowest free event counter; the chosen bit is set in
\* the mask it was given.
get_event_idx(used, hwc) ==
    IF hwc.config_base.event = ARMV7_PERFCTR_CPU_CYCLES
    THEN IF ARMV7_IDX_CYCLE_COUNTER \in used
         THEN [idx |-> -EAGAIN, used |-> used]
         ELSE [idx |-> ARMV7_IDX_CYCLE_COUNTER,
               used |-> used \cup {ARMV7_IDX_CYCLE_COUNTER}]
    ELSE LET free == {i \in CounterIdx : i > ARMV7_IDX_CYCLE_COUNTER /\ i \notin used}
         IN  IF free = {} THEN [idx |-> -EAGAIN, used |-> used]
             ELSE [idx |-> SetMin(free), used |-> used \cup {SetMin(free)}]

\* backend mode filter: idle exclusion cannot be honoured, the other modes
\* are recorded in the event's configuration
set_event_filter(hwc, attr) ==
    IF attr.exclude_idle THEN [ret |-> -EPERM, hwc |-> hwc]
    ELSE [ret |-> 0,
          hwc |-> [hwc EXCEPT !.config_base.excl =
                      {m \in {"user", "kernel", "hv"} :
                          \/ m = "user" /\ attr.exclude_user
                          \/ m = "kernel" /\ attr.exclude_kernel
                          \/ m = "hv" /\ attr.exclude_hv}]]

\* ------------------------------------------------------------- event records
ARMPMU == "armpmu"
OTHERPMU == "software"

NoConfig == [event |-> 0, excl |-> {}]

\* hardware state of an event as the framework hands it to event_init
FreshHw(attr) ==
    [idx |-> 0, config_base |-> NoConfig, state |-> {},
     prev_count |-> 0, prev_by |-> "alloc", period_left |-> attr.sample_period,
     sample_period |-> attr.sample_period, last_period |-> attr.sample_period]

\* event_requires_mode_exclusion that overlooks exclude_idle
event_requires_mode_exclusion_no_idle(attr) ==
    attr.exclude_user \/ attr.exclude_kernel \/ attr.exclude_hv

event_requires_mode_exclusion(attr) ==
    attr.exclude_idle \/ attr.exclude_user \/ attr.exclude_kernel \/ attr.exclude_hv

\* a zeroed struct cpu_hw_events
ZeroTable == [events |-> [i \in CounterIdx |-> 0], used_mask |-> {}]

\* validate_event that places disabled members too
validate_event_counts_disabled(cpuc, event, leader_pmu) ==
    LET fake_event == event.hw
    IN  IF event.pmu # leader_pmu
        THEN {[ok |-> TRUE, cpuc |-> cpuc, hw |-> event.hw]}
        ELSE LET r == get_event_idx(cpuc.used_mask, fake_event)
             IN  {[ok |-> r.idx >= 0,
                   cpuc |-> [cpuc EXCEPT !.used_mask = r.used],
                   hw |-> event.hw]}

\* validate_event: try to place one group member on the scratch table cpuc.
\* The allocator works on a copy of the member's hardware state.  A member
\* whose pmu is its leader's pmu but not this backend is handed to the
\* backend through a pointer of the wrong type: any result may come back.
validate_event(cpuc, event, leader_pmu) ==
    LET fake_event == event.hw
    IN  IF event.pmu # leader_pmu \/ event.state <= PERF_EVENT_STATE_OFF
        THEN {[ok |-> TRUE, cpuc |-> cpuc, hw |-> event.hw]}
        ELSE IF event.pmu = ARMPMU
        THEN LET r == get_event_idx(cpuc.used_mask, fake_event)
             IN  {[ok |-> r.idx >= 0,
                   cpuc |-> [cpuc EXCEPT !.used_mask = r.used],
                   hw |-> event.hw]}
        ELSE {[ok |-> b, cpuc |-> [cpuc EXCEPT !.used_mask = u], hw |-> event.hw] :
                 b \in BOOLEAN,
                 u \in {cpuc.used_mask} \cup {cpuc.used_mask \cup {i} : i \in CounterIdx}}

RECURSIVE ValidateMembers(_, _, _)
\* the members still to place, in order, against the scratch table so far:
\* the possible verdicts, each with the scratch table it leaves
ValidateMembers(members, cpuc, leader_pmu) ==
    IF members = <<>> THEN {[ok |-> TRUE, cpuc |-> cpuc]}
    ELSE UNION {IF o.ok THEN ValidateMembers(Tail(members), o.cpuc, leader_pmu)
                ELSE {[ok |-> FALSE, cpuc |-> o.cpuc]} :
                o \in validate_event(cpuc, Head(members), leader_pmu)}

\* validate_group run on the table of CPU 1 instead of a scratch table
validate_group_on_real_table(event, leader, siblings, tables) ==
    {[err |-> IF v.ok THEN 0 ELSE -ENOSPC,
      tables |-> [tables EXCEPT ![1] = v.cpuc],
      members |-> [k \in DOMAIN (<<leader>> \o siblings) |->
                      (<<leader>> \o siblings)[k].hw]] :
        v \in ValidateMembers(<<leader>> \o siblings \o <<event>>,
                              tables[1], leader.pmu)}

\* validate_group: leader, siblings in list order, then the event itself,
\* on a zeroed scratch table.  tables are the real per-CPU tables and members
\* the hardware states of leader and siblings; both come back as the call
\* leaves them.
validate_group(event, leader, siblings, tables) ==
    LET fake_pmu == ZeroTable
    IN  {[err |-> IF v.ok THEN 0 ELSE -ENOSPC,
          tables |-> tables,
          members |-> [k \in DOMAIN (<<leader>> \o siblings) |->
                          (<<leader>> \o siblings)[k].hw]] :
            v \in ValidateMembers(<<leader>> \o siblings \o <<event>>,
                                  fake_pmu, leader.pmu)}

\* the backend's map_event callback
map_event(event) == map_cpu_event(event.attr)

\* __hw_perf_event_init: the set of outcomes [err, hw, tables, members].
\* has_filter tells whether the backend supplies set_event_filter;
\* own_leader whether event->group_leader == event.
hw_perf_event_init(event, own_leader, leader, siblings, has_filter, tables) ==
    LET keep == [k \in DOMAIN (<<leader>> \o siblings) |->
                     (<<leader>> \o siblings)[k].hw]
        Out(e, h) == [err |-> e, hw |-> h, tables |-> tables, members |-> keep]
        AfterMap(mapping) ==
            LET hw1 == [event.hw EXCEPT !.idx = -1, !.config_base = NoConfig]
                f == IF has_filter THEN set_event_filter(hw1, event.attr)
                     ELSE [ret |-> -EPERM, hwc |-> hw1]
                hw2 == f.hwc
                hw3 == [hw2 EXCEPT !.config_base.event = mapping]
                hw4 == IF hw3.sample_period = 0
                       THEN [hw3 EXCEPT !.sample_period = max_period,
                                        !.last_period = max_period,
                                        !.period_left = max_period]
                       ELSE hw3
            IN  IF (~has_filter \/ f.ret # 0)
                   /\ event_requires_mode_exclusion(event.attr)
                THEN {Out(-EPERM, hw2)}
                ELSE IF own_leader THEN {Out(0, hw4)}
                ELSE {[err |-> IF v.err # 0 THEN -EINVAL ELSE 0, hw |-> hw4,
                       tables |-> v.tables, members |-> v.members] :
                         v \in validate_group([event EXCEPT !.hw = hw4],
                                              leader, siblings, tables)}
    IN  UNION {IF mapping < 0 THEN {Out(mapping, event.hw)} ELSE AfterMap(mapping) :
                  mapping \in map_event(event)}

\* ------------------------------------------------ period and delta accounting
\* (s64) x : wrap to the signed word
S64(x) == LET m == x % U64Mod IN IF m >= U64Mod \div 2 THEN m - U64Mod ELSE m

\* A call works on S = [hwc, count, tab, reg]: the event's hardware state and
\* count, the CPU's counter table and the CPU's PMU registers
\* reg = [enabled, running, counter].

\* backend register operations
backend_enable(reg, idx) == [reg EXCEPT !.enabled = @ \cup {idx}]
backend_disable(reg, idx) == [reg EXCEPT !.enabled = @ \ {idx}]
read_counter(reg, idx) == reg.counter[idx]
write_counter(reg, idx, val) == [reg EXCEPT !.counter[idx] = val]
backend_start(reg) == [reg EXCEPT !.running = TRUE]
backend_stop(reg) == [reg EXCEPT !.running = FALSE]

\* armpmu_event_set_period that stores the clamped value in period_left
armpmu_event_set_period_clamps_stored(S, idx) ==
    LET left0 == S.hwc.period_left
        period == S64(S.hwc.sample_period)
        stale == left0 <= S64(-period)
        left1 == IF stale THEN period ELSE left0
        wrapped == left1 <= 0
        left2 == IF wrapped THEN S64(left1 + period) ELSE left1
        left == IF left2 > max_period THEN max_period ELSE left2
        hw1 == IF stale \/ wrapped
               THEN [S.hwc EXCEPT !.period_left = left, !.last_period = period]
               ELSE [S.hwc EXCEPT !.period_left = left]
    IN  [S |-> [S EXCEPT !.hwc = [hw1 EXCEPT !.prev_count = U64(-left),
                                             !.prev_by = "local64_set"],
                         !.reg = write_counter(S.reg, idx,
                                               BitAnd(U64(-left), CounterMask))],
         ret |-> IF stale \/ wrapped THEN 1 ELSE 0]

\* armpmu_event_set_period that programs the counter without the clamp
armpmu_event_set_period_unclamped(S, idx) ==
    LET left0 == S.hwc.period_left
        period == S64(S.hwc.sample_period)
        stale == left0 <= S64(-period)
        left1 == IF stale THEN period ELSE left0
        wrapped == left1 <= 0
        left2 == IF wrapped THEN S64(left1 + period) ELSE left1
        hw1 == IF stale \/ wrapped
               THEN [S.hwc EXCEPT !.period_left = left2, !.last_period = period]
               ELSE S.hwc
        left == left2
    IN  [S |-> [S EXCEPT !.hwc = [hw1 EXCEPT !.prev_count = U64(-left),
                                             !.prev_by = "local64_set"],
                         !.reg = write_counter(S.reg, idx,
                                               BitAnd(U64(-left), CounterMask))],
         ret |-> IF stale \/ wrapped THEN 1 ELSE 0]

\* armpmu_event_set_period: [S, ret]
armpmu_event_set_period(S, idx) ==
    LET left0 == S.hwc.period_left
        period == S64(S.hwc.sample_period)
        stale == left0 <= S64(-period)
        left1 == IF stale THEN period ELSE left0
        wrapped == left1 <= 0
        left2 == IF wrapped THEN S64(left1 + period) ELSE left1
        hw1 == IF stale \/ wrapped
               THEN [S.hwc EXCEPT !.period_left = left2, !.last_period = period]
               ELSE S.hwc
        left == IF left2 > max_period THEN max_period ELSE left2
    IN  [S |-> [S EXCEPT !.hwc = [hw1 EXCEPT !.prev_count = U64(-left),
                                             !.prev_by = "local64_set"],
                         !.reg = write_counter(S.reg, idx,
                                               BitAnd(U64(-left), CounterMask))],
         ret |-> IF stale \/ wrapped THEN 1 ELSE 0]

\* the delta computed from the unmasked shadow value
update_delta_unmasked(prev_raw_count, new_raw_count, overflow) ==
    LET new == BitAnd(new_raw_count, max_period)
        prev == prev_raw_count
    IN  IF overflow # 0 THEN U64(max_period - prev + new + 1)
        ELSE U64(new - prev)

\* the accounting of armpmu_event_update once its cmpxchg has succeeded with
\* prev_raw_count and new_raw_count
update_delta(prev_raw_count, new_raw_count, overflow) ==
    LET new == BitAnd(new_raw_count, max_period)
        prev == BitAnd(prev_raw_count, max_period)
    IN  IF overflow # 0 THEN U64(max_period - prev + new + 1)
        ELSE U64(new - prev)

\* armpmu_event_update run without interference: the cmpxchg succeeds at
\* the first attempt
armpmu_event_update(S, idx, overflow) ==
    LET prev_raw_count == S.hwc.prev_count
        new_raw_count == read_counter(S.reg, idx)
        delta == update_delta(prev_raw_count, new_raw_count, overflow)
    IN  [S EXCEPT !.hwc.prev_count = new_raw_count,
                  !.hwc.prev_by = "cmpxchg",
                  !.count = U64(@ + delta),
                  !.hwc.period_left = S64(@ - delta)]

\* armpmu_read that clears the shadow after the update
armpmu_read_clears_shadow(S) ==
    IF S.hwc.idx < 0 THEN S
    ELSE [armpmu_event_update(S, S.hwc.idx, 0) EXCEPT !.hwc.prev_count = 0]

\* armpmu_read
armpmu_read(S) ==
    IF S.hwc.idx < 0 THEN S
    ELSE armpmu_event_update(S, S.hwc.idx, 0)

\* armpmu_stop
armpmu_stop(S, flags) ==
    IF PERF_HES_STOPPED \notin S.hwc.state
    THEN LET S1 == [S EXCEPT !.reg = backend_disable(S.reg, S.hwc.idx)]
             S2 == armpmu_event_update(S1, S1.hwc.idx, 0)
         IN  [S2 EXCEPT !.hwc.state = @ \cup {PERF_HES_STOPPED, PERF_HES_UPTODATE}]
    ELSE S

\* armpmu_start
armpmu_start(S, flags) ==
    LET S1 == [S EXCEPT !.hwc.state = {}]
        S2 == armpmu_event_set_period(S1, S1.hwc.idx).S
    IN  [S2 EXCEPT !.reg = backend_enable(S2.reg, S2.hwc.idx)]

\* armpmu_del that leaves the bit of the counter set in used_mask
armpmu_del_keeps_bit(S, flags) ==
    LET idx == S.hwc.idx
        S1 == armpmu_stop(S, {"PERF_EF_UPDATE"})
    IN  [S1 EXCEPT !.tab.events[idx] = 0]

\* armpmu_del for the event in S
armpmu_del(S, flags) ==
    LET idx == S.hwc.idx
        S1 == armpmu_stop(S, {"PERF_EF_UPDATE"})
    IN  [S1 EXCEPT !.tab.events[idx] = 0,
                   !.tab.used_mask = @ \ {idx}]

\* armpmu_disable: the pmu_disable callback
armpmu_disable(reg) == backend_stop(reg)

\* armpmu_enable: the pmu_enable callback; enables the counter of every
\* occupied slot, then starts the PMU if there was one
armpmu_enable(tab, reg) ==
    LET occupied == {idx \in CounterIdx : tab.events[idx] # 0}
        reg1 == [reg EXCEPT !.enabled = @ \cup occupied]
    IN  IF occupied # {} THEN backend_start(reg1) ELSE reg1

\* armpmu_add that stores the allocator's result in hw.idx before testing it
armpmu_add_assigns_idx_first(S, e, flags) ==
    LET reg0 == armpmu_disable(S.reg)
        r == get_event_idx(S.tab.used_mask, S.hwc)
        idx == r.idx
        tab0 == [S.tab EXCEPT !.used_mask = r.used]
    IN  IF idx < 0
        THEN [S |-> [S EXCEPT !.hwc.idx = idx, !.tab = tab0,
                              !.reg = armpmu_enable(tab0, reg0)],
              err |-> idx]
        ELSE LET S1 == [S EXCEPT !.hwc.idx = idx,
                                 !.reg = backend_disable(reg0, idx),
                                 !.tab = [tab0 EXCEPT !.events[idx] = e],
                                 !.hwc.state = {PERF_HES_STOPPED, PERF_HES_UPTODATE}]
                 S2 == IF "PERF_EF_START" \in flags
                       THEN armpmu_start(S1, {"PERF_EF_RELOAD"})
                       ELSE S1
             IN  [S |-> [S2 EXCEPT !.reg = armpmu_enable(S2.tab, S2.reg)],
                  err |-> 0]

\* armpmu_add of event id e: [S, err]
armpmu_add(S, e, flags) ==
    LET reg0 == armpmu_disable(S.reg)
        r == get_event_idx(S.tab.used_mask, S.hwc)
        idx == r.idx
        tab0 == [S.tab EXCEPT !.used_mask = r.used]
    IN  IF idx < 0
        THEN [S |-> [S EXCEPT !.tab = tab0, !.reg = armpmu_enable(tab0, reg0)],
              err |-> idx]
        ELSE LET S1 == [S EXCEPT !.hwc.idx = idx,
                                 !.reg = backend_disable(reg0, idx),
                                 !.tab = [tab0 EXCEPT !.events[idx] = e],
                                 !.hwc.state = {PERF_HES_STOPPED, PERF_HES_UPTODATE}]
                 S2 == IF "PERF_EF_START" \in flags
                       THEN armpmu_start(S1, {"PERF_EF_RELOAD"})
                       ELSE S1
             IN  [S |-> [S2 EXCEPT !.reg = armpmu_enable(S2.tab, S2.reg)],
                  err |-> 0]

\* =========================================================================
\* Hardware reservation: armpmu_event_init / hw_perf_event_destroy running
\* concurrently on several CPUs.
\* =========================================================================
VARIABLES
    active_events,  \* armpmu->active_events
    reserve_mutex,  \* armpmu->reserve_mutex: 0 when free, else the holder
    active_irqs,    \* armpmu->active_irqs
    irq_requested,  \* interrupts requested and not yet freed
    pmu_reserved,   \* the platform-level reservation (reserve_pmu) is held
    num_resources,  \* pmu_device->num_resources
    irq_ok,         \* resources i for which platform_get_irq(i) >= 0
    has_filter,     \* the backend supplies set_event_filter
    pc,             \* where each CPU is in event_init / destroy
    err,            \* local err of the call in progress
    ri,             \* loop index i of armpmu_reserve_hardware
    rh,             \* what the call in progress did about the reservation
    cur,            \* the event armpmu_event_init works on
    nInit,          \* calls of armpmu_event_init so far
    nAdmit,         \* of these, the calls that returned 0
    nDestroy,       \* events the framework has destroyed
    nReserve,       \* calls of armpmu_reserve_hardware so far
    nRelease,       \* calls of armpmu_release_hardware from destroy so far
    nSlow,          \* event_init calls that found active_events at 0
    dOverlap        \* two destroy calls have been in progress together

resVars == <<active_events, reserve_mutex, active_irqs, irq_requested,
             pmu_reserved, num_resources, irq_ok, has_filter, pc, err, ri, rh,
             cur, nInit, nAdmit, nDestroy, nReserve, nRelease, nSlow, dOverlap>>


\* per-CPU counter tables, PMU registers and the events the framework holds
VARIABLES
    cpu_hw_events,  \* per CPU: events[] (0 = NULL) and used_mask
    pmu_regs,       \* per CPU: enabled counters, PMU running, counter values
    perf_events,    \* the framework's events, by id
    initLog,        \* the last call of __hw_perf_event_init and its result
    nTicks,         \* hardware increments so far
    addFailed       \* an armpmu_add has returned an error

tabVars == <<cpu_hw_events, pmu_regs, perf_events, initLog, nTicks,
             addFailed>>

\* one started event read from process context and from interrupt context
VARIABLES
    u_hwc,          \* the event's hardware state
    u_count,        \* the event's count
    u_reg,          \* the PMU registers of the event's CPU
    rd,             \* the process-context armpmu_event_update in progress
    uTicks,         \* hardware increments since the event was started
    uCalls          \* calls made so far: [proc, irq]

updVars == <<u_hwc, u_count, u_reg, rd, uTicks, uCalls>>

\* one call of a function of this file on given arguments
VARIABLES
    fn_in,          \* the arguments
    fn_out          \* what the call returned and stored; NoOut before it

funVars == <<fn_in, fn_out>>

Cpus == 1 .. NumCpus

BaseAttr == [type |-> PERF_TYPE_HARDWARE, config |-> 0, sample_period |-> 0,
             exclude_idle |-> FALSE, exclude_user |-> FALSE,
             exclude_kernel |-> FALSE, exclude_hv |-> FALSE]

MkEvent(attr, pmu, state) ==
    [attr |-> attr, pmu |-> pmu, state |-> state, hw |-> FreshHw(attr)]

\* an event of this backend already initialised with the given mapping
InitedEvent(attr, mapping, state) ==
    [attr |-> attr, pmu |-> ARMPMU, state |-> state,
     hw |-> [FreshHw(attr) EXCEPT !.idx = -1, !.config_base.event = mapping,
                                  !.sample_period = max_period,
                                  !.last_period = max_period,
                                  !.period_left = max_period]]

\* event descriptors offered to armpmu_event_init
ResAttrs ==
    { BaseAttr,
      [BaseAttr EXCEPT !.config = 1, !.exclude_user = TRUE],
      [BaseAttr EXCEPT !.config = 2],
      [BaseAttr EXCEPT !.type = PERF_TYPE_HW_CACHE, !.config = 7] }

GroupLeader == InitedEvent(BaseAttr, ARMV7_PERFCTR_CPU_CYCLES, PERF_EVENT_STATE_INACTIVE)

\* the events offered: each descriptor as its own leader (grp = <<>>), and
\* the plain cycle-counter event as a new member of a group whose leader
\* already needs the cycle counter (grp = leader followed by siblings)
ResEvents ==
    {[ev |-> MkEvent(a, ARMPMU, PERF_EVENT_STATE_INACTIVE), grp |-> <<>>] :
        a \in ResAttrs}
    \cup {[ev |-> MkEvent(BaseAttr, ARMPMU, PERF_EVENT_STATE_INACTIVE),
           grp |-> <<GroupLeader>>]}

NoEvent == [ev |-> MkEvent(BaseAttr, "none", PERF_EVENT_STATE_OFF), grp |-> <<>>]

\* rh: reserve_hardware was called / reserve_pmu succeeded / a request_irq
\* failed / the call incremented active_events
NoPass == [ran |-> FALSE, pmu_ok |-> FALSE, req_fail |-> FALSE, inc |-> FALSE]

Irqs == Min(num_resources, NumCpus)

\* --- the counter tables before any event exists
\* the table operations work on NumEvents events; group building on one more
GroupSize == NumEvents + 1
EventIds == 1 .. GroupSize
TabEvents == 1 .. NumEvents

NoRegs == [enabled |-> {}, running |-> FALSE, counter |-> [i \in CounterIdx |-> 0]]

NoLog == [e |-> 0, err |-> 0, own_leader |-> TRUE, leader_pmu |-> "none",
          nCycle |-> 0, nOther |-> 0, flip |-> FALSE]

TabQuiet ==
    /\ cpu_hw_events = [c \in Cpus |-> ZeroTable]
    /\ pmu_regs = [c \in Cpus |-> NoRegs]
    /\ perf_events = [e \in EventIds |->
          [life |-> "free", attr |-> BaseAttr, pmu |-> "none",
           state |-> PERF_EVENT_STATE_OFF, group_leader |-> e, cpu |-> 0,
           hw |-> FreshHw(BaseAttr), count |-> 0]]
    /\ initLog = NoLog
    /\ nTicks = 0
    /\ addFailed = FALSE

NoFrame == [pc |-> "idle", prev_raw_count |-> 0, new_raw_count |-> 0,
            delta |-> 0, retried |-> FALSE]

UpdQuiet ==
    /\ u_hwc = FreshHw(BaseAttr)
    /\ u_count = 0
    /\ u_reg = NoRegs
    /\ rd = NoFrame
    /\ uTicks = 0
    /\ uCalls = [proc |-> 0, irq |-> 0]

NoOut == [op |-> "none"]

FunQuiet ==
    /\ fn_in = NoOut
    /\ fn_out = NoOut

\* no event_init or destroy call in progress, nothing reserved
ResIdle ==
    /\ active_events = 0
    /\ reserve_mutex = 0
    /\ active_irqs = {}
    /\ irq_requested = {}
    /\ pmu_reserved = FALSE
    /\ pc = [p \in Cpus |-> "idle"]
    /\ err = [p \in Cpus |-> 0]
    /\ ri = [p \in Cpus |-> 0]
    /\ rh = [p \in Cpus |-> NoPass]
    /\ cur = [p \in Cpus |-> NoEvent]
    /\ nInit = 0 /\ nAdmit = 0 /\ nDestroy = 0 /\ nReserve = 0 /\ nRelease = 0
    /\ nSlow = 0 /\ dOverlap = FALSE

ResInit ==
    /\ ResIdle
    /\ num_resources \in 0 .. MaxIrqs
    /\ irq_ok \in SUBSET (0 .. (num_resources - 1))
    /\ has_filter \in BOOLEAN
    /\ TabQuiet
    /\ UpdQuiet
    /\ FunQuiet

\* armpmu_release_hardware without the final release_pmu
armpmu_release_hardware_keeps_pmu(S, irqs) ==
    LET recorded == {i \in 0 .. (irqs - 1) : i \in S.active_irqs}
        freed == {i \in recorded : i \in irq_ok}
    IN  [active_irqs |-> S.active_irqs \ recorded,
         irq_requested |-> S.irq_requested \ freed,
         pmu_reserved |-> S.pmu_reserved]

\* armpmu_release_hardware that clears active_irqs without freeing
armpmu_release_hardware_frees_nothing(S, irqs) ==
    LET recorded == {i \in 0 .. (irqs - 1) : i \in S.active_irqs}
    IN  [active_irqs |-> S.active_irqs \ recorded,
         irq_requested |-> S.irq_requested,
         pmu_reserved |-> FALSE]

\* armpmu_release_hardware: free the interrupt of every CPU recorded in
\* active_irqs, then release the platform reservation.
armpmu_release_hardware(S, irqs) ==
    LET recorded == {i \in 0 .. (irqs - 1) : i \in S.active_irqs}
        freed == {i \in recorded : i \in irq_ok}
    IN  [active_irqs |-> S.active_irqs \ recorded,
         irq_requested |-> S.irq_requested \ freed,
         pmu_reserved |-> FALSE]

\* armpmu_reserve_hardware up to its loop: reserve_pmu, then the check that
\* at least one interrupt resource exists.  pmu_err is reserve_pmu's result.
reserve_hardware_begin(S, pmu_err, irqs) ==
    IF pmu_err # 0
    THEN [S |-> S, err |-> pmu_err, ret |-> TRUE]
    ELSE IF irqs < 1
    THEN [S |-> [S EXCEPT !.pmu_reserved = TRUE], err |-> -ENODEV, ret |-> TRUE]
    ELSE [S |-> [S EXCEPT !.pmu_reserved = TRUE], err |-> 0, ret |-> FALSE]

\* reserve_hardware_iter that skips an interrupt whose affinity cannot be set
\* even when it is the only one
reserve_hardware_iter_always_skips(S, i, irqs, aff_err, req_err) ==
    IF i \notin irq_ok
    THEN [S |-> S, err |-> 0, ret |-> FALSE]
    ELSE IF aff_err # 0
    THEN [S |-> S, err |-> 0, ret |-> FALSE]
    ELSE IF req_err # 0
    THEN [S |-> armpmu_release_hardware(S, irqs), err |-> req_err, ret |-> TRUE]
    ELSE [S |-> [S EXCEPT !.active_irqs = @ \cup {i},
                          !.irq_requested = @ \cup {i}],
          err |-> 0, ret |-> FALSE]

\* one iteration of the loop of armpmu_reserve_hardware for resource i;
\* aff_err and req_err are the results of irq_set_affinity and request_irq.
reserve_hardware_iter(S, i, irqs, aff_err, req_err) ==
    IF i \notin irq_ok
    THEN [S |-> S, err |-> 0, ret |-> FALSE]
    ELSE IF aff_err # 0 /\ irqs > 1
    THEN [S |-> S, err |-> 0, ret |-> FALSE]
    ELSE IF req_err # 0
    THEN [S |-> armpmu_release_hardware(S, irqs), err |-> req_err, ret |-> TRUE]
    ELSE [S |-> [S EXCEPT !.active_irqs = @ \cup {i},
                          !.irq_requested = @ \cup {i}],
          err |-> 0, ret |-> FALSE]

HwState == [active_irqs |-> active_irqs, irq_requested |-> irq_requested,
            pmu_reserved |-> pmu_reserved]

SetHwState(S) ==
    /\ active_irqs' = S.active_irqs
    /\ irq_requested' = S.irq_requested
    /\ pmu_reserved' = S.pmu_reserved

\* results reserve_pmu can give: it fails when the reservation is already
\* held, and may fail because another subsystem holds the PMU
ReservePmuResults == IF pmu_reserved THEN {-EBUSY} ELSE {0, -EBUSY}
\* results request_irq can give for interrupt i
RequestIrqResults(i) == IF i \in irq_requested THEN {-EBUSY} ELSE {0, -EBUSY}
AffinityResults == {0, -EINVAL}

hwVars == <<active_irqs, irq_requested, pmu_reserved>>
platform == <<num_resources, irq_ok, has_filter>>
\* what no step of event_init or destroy touches
platVars == <<platform, tabVars, updVars, funVars>>
ghostVars == <<nSlow, dOverlap>>

\* events created successfully and not yet destroyed
live == nAdmit - nDestroy

\* armpmu_event_init returns r to the framework; the CPU is free again
InitReturn(p, r) ==
    /\ pc' = [pc EXCEPT ![p] = "idle"]
    /\ err' = [err EXCEPT ![p] = 0]
    /\ rh' = [rh EXCEPT ![p] = NoPass]
    /\ cur' = [cur EXCEPT ![p] = NoEvent]
    /\ nAdmit' = IF r = 0 THEN nAdmit + 1 ELSE nAdmit

\* armpmu_event_init, entry: give up at once on an unsupported event,
\* otherwise install the destroy callback and go on.  Nothing between this
\* check and __hw_perf_event_init looks at the event, so the event is
\* recorded in cur only from EI_hwinit on.
EI_enter(p, e) ==
    /\ pc[p] = "idle" /\ nInit < MaxInit
    /\ nInit' = nInit + 1
    /\ \E m \in map_event(e.ev) :
        IF m = -ENOENT
        THEN InitReturn(p, -ENOENT)
        ELSE /\ pc' = [pc EXCEPT ![p] = "EI_incnz"]
             /\ UNCHANGED <<err, rh, cur, nAdmit>>
    /\ UNCHANGED <<ghostVars, active_events, reserve_mutex, hwVars, platVars, ri,
                   nDestroy, nReserve, nRelease>>

\* EI_incnz with a plain atomic_inc: the count is raised even from 0
EI_incnz_plain(p) ==
    /\ pc[p] = "EI_incnz"
    /\ active_events' = active_events + 1
    /\ rh' = [rh EXCEPT ![p].inc = TRUE]
    /\ pc' = [pc EXCEPT ![p] = "EI_hwinit"]
    /\ UNCHANGED <<ghostVars, reserve_mutex, hwVars, platVars, err, ri, cur,
                   nInit, nAdmit, nDestroy, nReserve, nRelease>>

\* atomic_inc_not_zero(active_events)
EI_incnz(p) ==
    /\ pc[p] = "EI_incnz"
    /\ IF active_events # 0
       THEN /\ active_events' = active_events + 1
            /\ rh' = [rh EXCEPT ![p].inc = TRUE]
            /\ pc' = [pc EXCEPT ![p] = "EI_hwinit"]
            /\ UNCHANGED nSlow
       ELSE /\ pc' = [pc EXCEPT ![p] = "EI_lock"]
            /\ nSlow' = nSlow + 1
            /\ UNCHANGED <<active_events, rh>>
    /\ UNCHANGED <<dOverlap, reserve_mutex, hwVars, platVars, err, ri, cur,
                   nInit, nAdmit, nDestroy, nReserve, nRelease>>

\* EI_lock that does not wait for the mutex to be free
EI_lock_nowait(p) ==
    /\ pc[p] = "EI_lock"
    /\ reserve_mutex' = p
    /\ pc' = [pc EXCEPT ![p] = "EI_check"]
    /\ UNCHANGED <<ghostVars, active_events, hwVars, platVars, err, ri, rh, cur,
                   nInit, nAdmit, nDestroy, nReserve, nRelease>>

\* mutex_lock(&armpmu->reserve_mutex)
EI_lock(p) ==
    /\ pc[p] = "EI_lock"
    /\ reserve_mutex = 0
    /\ reserve_mutex' = p
    /\ pc' = [pc EXCEPT ![p] = "EI_check"]
    /\ UNCHANGED <<ghostVars, active_events, hwVars, platVars, err, ri, rh, cur,
                   nInit, nAdmit, nDestroy, nReserve, nRelease>>

\* if (atomic_read(active_events) == 0) err = armpmu_reserve_hardware(armpmu);
\* the call itself starts with reserve_pmu and the irqs < 1 check
EI_check(p) ==
    /\ pc[p] = "EI_check"
    /\ IF active_events = 0
       THEN \E pmu_err \in ReservePmuResults :
            LET r == reserve_hardware_begin(HwState, pmu_err, Irqs)
            IN  /\ SetHwState(r.S)
                /\ nReserve' = nReserve + 1
                /\ err' = [err EXCEPT ![p] = r.err]
                /\ rh' = [rh EXCEPT ![p].ran = TRUE, ![p].pmu_ok = (pmu_err = 0)]
                /\ pc' = [pc EXCEPT ![p] = IF r.ret THEN "EI_inc" ELSE "RH_loop"]
       ELSE /\ pc' = [pc EXCEPT ![p] = "EI_inc"]
            /\ UNCHANGED <<hwVars, nReserve, err, rh>>
    /\ UNCHANGED <<ghostVars, active_events, reserve_mutex, platVars, ri, cur,
                   nInit, nAdmit, nDestroy, nRelease>>

\* the for loop of armpmu_reserve_hardware, one iteration per step
RH_loop(p) ==
    /\ pc[p] = "RH_loop"
    /\ IF ri[p] >= Irqs
       THEN /\ pc' = [pc EXCEPT ![p] = "EI_inc"]
            /\ err' = [err EXCEPT ![p] = 0]
            /\ ri' = [ri EXCEPT ![p] = 0]
            /\ UNCHANGED <<hwVars, rh>>
       ELSE \E aff_err \in AffinityResults, req_err \in RequestIrqResults(ri[p]) :
            LET r == reserve_hardware_iter(HwState, ri[p], Irqs, aff_err, req_err)
            IN  /\ SetHwState(r.S)
                /\ err' = [err EXCEPT ![p] = r.err]
                /\ ri' = [ri EXCEPT ![p] = IF r.ret THEN 0 ELSE @ + 1]
                /\ rh' = [rh EXCEPT ![p].req_fail = r.ret]
                /\ pc' = [pc EXCEPT ![p] = IF r.ret THEN "EI_inc" ELSE "RH_loop"]
    /\ UNCHANGED <<ghostVars, active_events, reserve_mutex, platVars, cur,
                   nInit, nAdmit, nDestroy, nReserve, nRelease>>

\* EI_inc that counts the event even when the reservation failed
EI_inc_always(p) ==
    /\ pc[p] = "EI_inc"
    /\ active_events' = active_events + 1
    /\ rh' = [rh EXCEPT ![p].inc = TRUE]
    /\ pc' = [pc EXCEPT ![p] = "EI_unlock"]
    /\ UNCHANGED <<ghostVars, reserve_mutex, hwVars, platVars, err, ri, cur,
                   nInit, nAdmit, nDestroy, nReserve, nRelease>>

\* if (!err) atomic_inc(active_events);
EI_inc(p) ==
    /\ pc[p] = "EI_inc"
    /\ active_events' = IF err[p] = 0 THEN active_events + 1 ELSE active_events
    /\ rh' = [rh EXCEPT ![p].inc = (err[p] = 0)]
    /\ pc' = [pc EXCEPT ![p] = "EI_unlock"]
    /\ UNCHANGED <<ghostVars, reserve_mutex, hwVars, platVars, err, ri, cur,
                   nInit, nAdmit, nDestroy, nReserve, nRelease>>

\* EI_unlock that returns the error without releasing the mutex
EI_unlock_keeps_on_error(p) ==
    /\ pc[p] = "EI_unlock"
    /\ IF err[p] # 0
       THEN /\ InitReturn(p, err[p])
            /\ UNCHANGED reserve_mutex
       ELSE /\ reserve_mutex' = 0
            /\ pc' = [pc EXCEPT ![p] = "EI_hwinit"]
            /\ UNCHANGED <<err, rh, cur, nAdmit>>
    /\ UNCHANGED <<ghostVars, active_events, hwVars, platVars, ri,
                   nInit, nDestroy, nReserve, nRelease>>

\* mutex_unlock; if (err) return err;
EI_unlock(p) ==
    /\ pc[p] = "EI_unlock"
    /\ reserve_mutex' = 0
    /\ IF err[p] # 0
       THEN InitReturn(p, err[p])
       ELSE /\ pc' = [pc EXCEPT ![p] = "EI_hwinit"]
            /\ UNCHANGED <<err, rh, cur, nAdmit>>
    /\ UNCHANGED <<ghostVars, active_events, hwVars, platVars, ri,
                   nInit, nDestroy, nReserve, nRelease>>

\* err = __hw_perf_event_init(event); if (err) hw_perf_event_destroy(event);
\* e is the event of this call: one that passed the check at entry
EI_hwinit(p, e) ==
    /\ pc[p] = "EI_hwinit"
    /\ \E m \in map_event(e.ev) : m # -ENOENT
    /\ \E o \in hw_perf_event_init(
                    e.ev, e.grp = <<>>,
                    IF e.grp = <<>> THEN e.ev ELSE Head(e.grp),
                    IF e.grp = <<>> THEN <<>> ELSE Tail(e.grp),
                    has_filter, <<>>) :
        IF o.err # 0
        THEN /\ pc' = [pc EXCEPT ![p] = "HD_fast"]
             /\ err' = [err EXCEPT ![p] = o.err]
             /\ cur' = [cur EXCEPT ![p] = e]
             /\ UNCHANGED <<rh, nAdmit>>
        ELSE InitReturn(p, 0)
    /\ UNCHANGED <<ghostVars, active_events, reserve_mutex, hwVars, platVars, ri,
                   nInit, nDestroy, nReserve, nRelease>>

\* hw_perf_event_destroy runs on the failure path of armpmu_event_init
\* exactly when that call's event is still recorded
InInit(p) == cur[p] # NoEvent

\* CPU q is inside a hw_perf_event_destroy the framework called
InDestroy(q) == pc[q] \in {"HD_fast", "HD_lock", "HD_dec", "HD_release", "HD_unlock"}
                /\ ~InInit(q)

\* return from hw_perf_event_destroy: to the framework, or back into
\* armpmu_event_init, which returns its error
DestroyReturn(p) ==
    IF InInit(p)
    THEN InitReturn(p, err[p])
    ELSE /\ pc' = [pc EXCEPT ![p] = "idle"]
         /\ UNCHANGED <<err, rh, cur, nAdmit>>

\* the framework drops the last reference of a live event on CPU p
HD_enter(p) ==
    /\ pc[p] = "idle" /\ live > 0
    /\ nDestroy' = nDestroy + 1
    /\ dOverlap' = (dOverlap \/ \E q \in Cpus : InDestroy(q))
    /\ pc' = [pc EXCEPT ![p] = "HD_fast"]
    /\ UNCHANGED <<nSlow, active_events, reserve_mutex, hwVars, platVars, err, ri, rh,
                   cur, nInit, nAdmit, nReserve, nRelease>>

\* HD_fast that gives the count back only for events the framework destroys,
\* not on the failure path of armpmu_event_init
HD_fast_noundo(p) ==
    /\ pc[p] = "HD_fast"
    /\ IF InInit(p)
       THEN /\ DestroyReturn(p)
            /\ UNCHANGED active_events
       ELSE IF active_events # 1
       THEN /\ active_events' = active_events - 1
            /\ DestroyReturn(p)
       ELSE /\ pc' = [pc EXCEPT ![p] = "HD_lock"]
            /\ UNCHANGED <<active_events, err, rh, cur, nAdmit>>
    /\ UNCHANGED <<ghostVars, reserve_mutex, hwVars, platVars, ri,
                   nInit, nDestroy, nReserve, nRelease>>

\* atomic_dec_and_mutex_lock, fast path: decrement unless the count is 1
HD_fast(p) ==
    /\ pc[p] = "HD_fast"
    /\ IF active_events # 1
       THEN /\ active_events' = active_events - 1
            /\ DestroyReturn(p)
       ELSE /\ pc' = [pc EXCEPT ![p] = "HD_lock"]
            /\ UNCHANGED <<active_events, err, rh, cur, nAdmit>>
    /\ UNCHANGED <<ghostVars, reserve_mutex, hwVars, platVars, ri,
                   nInit, nDestroy, nReserve, nRelease>>

\* atomic_dec_and_mutex_lock, slow path: take the mutex
HD_lock(p) ==
    /\ pc[p] = "HD_lock"
    /\ reserve_mutex = 0
    /\ reserve_mutex' = p
    /\ pc' = [pc EXCEPT ![p] = "HD_dec"]
    /\ UNCHANGED <<ghostVars, active_events, hwVars, platVars, err, ri, rh, cur,
                   nInit, nAdmit, nDestroy, nReserve, nRelease>>

\* HD_dec without the test of the decremented count: the caller that took
\* the mutex always releases the hardware
HD_dec_notest(p) ==
    /\ pc[p] = "HD_dec"
    /\ active_events' = active_events - 1
    /\ pc' = [pc EXCEPT ![p] = "HD_release"]
    /\ UNCHANGED <<ghostVars, reserve_mutex, hwVars, platVars, err, ri, rh, cur,
                   nInit, nAdmit, nDestroy, nReserve, nRelease>>

\* HD_dec that takes the slow path without decrementing the count
HD_dec_keeps_count(p) ==
    /\ pc[p] = "HD_dec"
    /\ pc' = [pc EXCEPT ![p] = "HD_unlock"]
    /\ UNCHANGED <<ghostVars, active_events, reserve_mutex, hwVars, platVars, err,
                   ri, rh, cur, nInit, nAdmit, nDestroy, nReserve, nRelease>>

\* atomic_dec_and_mutex_lock, slow path: decrement and test under the mutex;
\* when the count reached 0 the caller runs armpmu_release_hardware
HD_dec(p) ==
    /\ pc[p] = "HD_dec"
    /\ active_events' = active_events - 1
    /\ pc' = [pc EXCEPT ![p] = IF active_events - 1 = 0 THEN "HD_release"
                               ELSE "HD_unlock"]
    /\ UNCHANGED <<ghostVars, reserve_mutex, hwVars, platVars, err, ri, rh, cur,
                   nInit, nAdmit, nDestroy, nReserve, nRelease>>

\* armpmu_release_hardware(armpmu) from hw_perf_event_destroy
HD_release(p) ==
    /\ pc[p] = "HD_release"
    /\ SetHwState(armpmu_release_hardware(HwState, Irqs))
    /\ nRelease' = nRelease + 1
    /\ pc' = [pc EXCEPT ![p] = "HD_unlock"]
    /\ UNCHANGED <<ghostVars, active_events, reserve_mutex, platVars, err, ri, rh, cur,
                   nInit, nAdmit, nDestroy, nReserve>>

\* mutex_unlock(pmu_reserve_mutex) and return
HD_unlock(p) ==
    /\ pc[p] = "HD_unlock"
    /\ reserve_mutex' = 0
    /\ DestroyReturn(p)
    /\ UNCHANGED <<ghostVars, active_events, hwVars, platVars, ri,
                   nInit, nDestroy, nReserve, nRelease>>

ResNext ==
    \E p \in Cpus :
        \/ \E e \in ResEvents : EI_enter(p, e)
        \/ EI_incnz(p)
        \/ EI_lock(p)
        \/ EI_check(p)
        \/ RH_loop(p)
        \/ EI_inc(p)
        \/ EI_unlock(p)
        \/ \E e \in ResEvents : EI_hwinit(p, e)
        \/ HD_enter(p)
        \/ HD_fast(p)
        \/ HD_lock(p)
        \/ HD_dec(p)
        \/ HD_release(p)
        \/ HD_unlock(p)

vars == <<resVars, tabVars, updVars, funVars>>

SpecRes == ResInit /\ [][ResNext]_vars

\* =========================================================================
\* Properties of the hardware reservation
\* =========================================================================
AllIdle == \A p \in Cpus : pc[p] = "idle"
HDpcs == {"HD_fast", "HD_lock", "HD_dec", "HD_release", "HD_unlock"}

\* C2: when the only two calls of armpmu_event_init made so far have both
\* returned 0 (whatever their interleaving, in particular when both found
\* active_events at 0), armpmu_reserve_hardware has run exactly once and
\* active_events is 2; when these two events, admitted under that one
\* reservation, have both been destroyed (whatever the interleaving of the
\* two destroy calls), armpmu_release_hardware has run exactly once.
C2_ReserveReleaseOnce ==
    /\ (nInit = 2 /\ nAdmit = 2 /\ nDestroy = 0)
          => (nReserve = 1 /\ nRelease = 0 /\ active_events = 2)
    /\ (AllIdle /\ nInit = 2 /\ nAdmit = 2 /\ nDestroy = 2 /\ nReserve = 1)
          => (nRelease = 1 /\ active_events = 0)

\* both calls found the count at 0 and took the mutex path, both admitted
C2_WitnessInit ==
    nInit = 2 /\ nAdmit = 2 /\ nDestroy = 0 /\ nSlow = 2 /\ nReserve = 1
    /\ active_events = 2

\* both destroy calls overlapped and are finished; one release pass ran
C2_Witness ==
    AllIdle /\ nInit = 2 /\ nAdmit = 2 /\ nDestroy = 2 /\ nSlow = 2 /\ dOverlap
    /\ nReserve = 1 /\ nRelease = 1 /\ active_events = 0

C9_FailedReservationRetried ==
    \A p \in Cpus :
        /\ (pc[p] = "EI_unlock" /\ err[p] # 0)
              => (active_events = 0 /\ ~rh[p].inc /\ rh[p].ran)
        /\ (pc[p] \in {"EI_inc", "RH_loop"} /\ ~rh[p].ran) => active_events >= 1
        /\ (pc[p] = "EI_inc" /\ rh[p].ran /\ rh[p].pmu_ok /\ ~rh[p].req_fail
               /\ Irqs >= 1)
              => err[p] = 0

\* an earlier pass failed (two passes, no release between), this one succeeded
C9_Witness ==
    \E p \in Cpus :
        /\ pc[p] = "EI_unlock" /\ err[p] = 0 /\ rh[p].ran /\ rh[p].inc
        /\ nReserve = 2 /\ nRelease = 0 /\ active_events = 1

\* C10: whenever armpmu_reserve_hardware returns an error, no interrupt is
\* left requested, active_irqs is empty and the platform reservation the
\* call took has been released.
C10_ReserveAllOrNothing ==
    \A p \in Cpus :
        (pc[p] = "EI_inc" /\ rh[p].ran /\ err[p] # 0)
        => (active_irqs = {} /\ irq_requested = {}
            /\ (rh[p].pmu_ok => ~pmu_reserved))

\* C11: a call of armpmu_event_init that fails after the reservation step
\* keeps nothing: it had counted itself in active_events and gives that
\* back, so with no call in progress active_events is the number of live
\* events; when its rollback brought the count to 0 it has released every
\* interrupt and the platform reservation before it drops the mutex; and
\* with no call in progress and no live event nothing is left reserved (on
\* a platform that has an interrupt resource at all).
C11_FailedInitKeepsNothing ==
    /\ \A p \in Cpus : InInit(p) => (rh[p].inc /\ err[p] # 0)
    /\ AllIdle => active_events = live
    /\ \A p \in Cpus :
          (InInit(p) /\ pc[p] = "HD_unlock" /\ active_events = 0)
          => (active_irqs = {} /\ irq_requested = {} /\ ~pmu_reserved)
    /\ (AllIdle /\ live = 0)
          => (active_irqs = {} /\ irq_requested = {}
              /\ (Irqs >= 1 => ~pmu_reserved))

\* a group member was rejected by the call that had reserved the hardware,
\* and the rollback has released it
C11_Witness ==
    \E p \in Cpus :
        /\ InInit(p) /\ pc[p] = "HD_unlock" /\ err[p] = -EINVAL
        /\ rh[p].ran /\ rh[p].inc /\ nReserve = 1 /\ nRelease = 1
        /\ active_events = 0 /\ irq_requested = {} /\ ~pmu_reserved

\* CPU q is inside armpmu_reserve_hardware
Reserving(q) == pc[q] = "RH_loop" \/ (pc[q] = "EI_inc" /\ rh[q].ran)
\* CPU q has taken the count to 0 and is releasing the hardware
Releasing(q) == pc[q] = "HD_release"

\* C16: whenever active_events >= 1 the platform reservation is held, every
\* recorded interrupt is requested, and no CPU is inside a reserve pass or
\* about to release; a call of armpmu_event_init that is about to return
\* success holds a count, so it returns only in such a state.
C16_CountImpliesReserved ==
    /\ active_events >= 1 =>
          /\ pmu_reserved
          /\ active_irqs = irq_requested
          /\ \A q \in Cpus : ~Reserving(q) /\ ~Releasing(q)
    /\ \A p \in Cpus : pc[p] = "EI_hwinit" => (rh[p].inc /\ active_events >= 1)
    /\ \A q \in Cpus : (Reserving(q) \/ Releasing(q)) => active_events = 0

\* after a release, a second reservation admitted a call that is about to
\* run __hw_perf_event_init
C16_Witness ==
    /\ nRelease = 1 /\ nReserve = 2
    /\ active_events >= 1 /\ pmu_reserved
    /\ \E p \in Cpus : pc[p] = "EI_hwinit" /\ rh[p].ran

\* the steps taken between mutex_lock and mutex_unlock
LockedPcs == {"EI_check", "RH_loop", "EI_inc", "EI_unlock",
              "HD_dec", "HD_release", "HD_unlock"}

\* C17: a CPU between mutex_lock and mutex_unlock, in particular one inside
\* armpmu_reserve_hardware or before armpmu_release_hardware, is the holder
\* of reserve_mutex; so at most one CPU is in a reserve or release pass.
C17_PassesUnderMutex ==
    /\ \A p \in Cpus : pc[p] \in LockedPcs => reserve_mutex = p
    /\ Cardinality({p \in Cpus : Reserving(p) \/ Releasing(p)}) <= 1
    /\ (\A p \in Cpus : pc[p] \notin LockedPcs) => reserve_mutex = 0

\* one CPU is in the middle of the reserve loop while another waits for
\* the mutex
C17_Witness ==
    \E p \in Cpus, q \in Cpus :
        /\ p # q
        /\ pc[p] = "RH_loop" /\ ri[p] >= 1 /\ reserve_mutex = p
        /\ pc[q] \in {"EI_lock", "HD_lock"}

\* =========================================================================
\* Counter tables: event initialisation, add, del, start, stop, read
\*
\* Each handler runs on its CPU with interrupts off and is one step.  The
\* framework creates events in id order, so a group's sibling list is its
\* members in id order.
\* =========================================================================
TabInit ==
    /\ ResIdle
    /\ num_resources = NumCpus
    /\ irq_ok = 0 .. (NumCpus - 1)
    /\ has_filter = TRUE
    /\ TabQuiet
    /\ UpdQuiet
    /\ FunQuiet

\* what no table operation touches
notTab == <<resVars, updVars, funVars>>

Live(e) == perf_events[e].life = "live"

\* the sibling list of leader l, in list order
RECURSIVE SiblingsFrom(_, _)
SiblingsFrom(l, e) ==
    IF e > GroupSize THEN <<>>
    ELSE IF e # l /\ Live(e) /\ perf_events[e].group_leader = l
    THEN <<e>> \o SiblingsFrom(l, e + 1)
    ELSE SiblingsFrom(l, e + 1)

sibling_list(l) == SiblingsFrom(l, 1)

\* event descriptors offered to the table operations
TabAttrs == { BaseAttr, [BaseAttr EXCEPT !.config = 1] }

\* the state of a call of a handler for event e on CPU c
CallState(e, c) ==
    [hwc |-> perf_events[e].hw, count |-> perf_events[e].count,
     tab |-> cpu_hw_events[c], reg |-> pmu_regs[c]]

\* store what a handler for event e on CPU c left
Store(e, c, S) ==
    /\ cpu_hw_events' = [cpu_hw_events EXCEPT ![c] = S.tab]
    /\ pmu_regs' = [pmu_regs EXCEPT ![c] = S.reg]

\* members of the group (leader, siblings, new event) that the validator
\* places: on the leader's pmu and not disabled
Counted(members, leader_pmu) ==
    {k \in DOMAIN members :
        members[k].pmu = leader_pmu /\ members[k].state > PERF_EVENT_STATE_OFF}

\* the framework creates event e with leader l and calls
\* __hw_perf_event_init on it; a failed event is freed at once
Create(e, attr, st, l) ==
    /\ ~Live(e)
    /\ \A d \in EventIds : d < e => Live(d)
    /\ l = e \/ (l < e /\ perf_events[l].group_leader = l)
    /\ LET event == [perf_events[e] EXCEPT !.attr = attr, !.pmu = ARMPMU,
                           !.state = st, !.group_leader = l,
                           !.hw = FreshHw(attr), !.count = 0]
           sibs == sibling_list(l)
           grp == <<l>> \o sibs
           leader == perf_events[l]
           siblings == [k \in DOMAIN sibs |-> perf_events[sibs[k]]]
       IN  \E o \in hw_perf_event_init(event, l = e, leader, siblings,
                                       has_filter, cpu_hw_events) :
             LET all == <<leader>> \o siblings \o <<[event EXCEPT !.hw = o.hw]>>
                 cnt == IF l = e THEN {} ELSE Counted(all, leader.pmu)
                 cyc == {k \in cnt : all[k].hw.config_base.event
                                        = ARMV7_PERFCTR_CPU_CYCLES}
             IN
             /\ cpu_hw_events' = o.tables
             /\ perf_events' =
                  [d \in EventIds |->
                     IF d = e
                     THEN IF o.err = 0
                          THEN [event EXCEPT !.life = "live", !.hw = o.hw]
                          ELSE perf_events[e]
                     ELSE IF l # e /\ \E k \in DOMAIN grp : grp[k] = d
                     THEN [perf_events[d] EXCEPT !.hw =
                             o.members[CHOOSE k \in DOMAIN grp : grp[k] = d]]
                     ELSE perf_events[d]]
             /\ initLog' = [e |-> e, err |-> o.err, own_leader |-> (l = e),
                            leader_pmu |-> leader.pmu,
                            nCycle |-> Cardinality(cyc),
                            nOther |-> Cardinality(cnt \ cyc),
                            flip |-> ~initLog.flip]
    /\ UNCHANGED <<notTab, pmu_regs, nTicks, addFailed>>

\* the framework creates an event of another pmu: none of this code runs
CreateOther(e, st, l) ==
    /\ ~Live(e)
    /\ \A d \in EventIds : d < e => Live(d)
    /\ l = e \/ (l < e /\ perf_events[l].group_leader = l)
    /\ perf_events' = [perf_events EXCEPT ![e] =
          [@ EXCEPT !.life = "live", !.pmu = OTHERPMU, !.state = st,
                    !.group_leader = l]]
    /\ UNCHANGED <<notTab, cpu_hw_events, pmu_regs, initLog, nTicks, addFailed>>

Schedulable(e) ==
    /\ Live(e)
    /\ perf_events[e].pmu = ARMPMU
    /\ perf_events[e].state = PERF_EVENT_STATE_INACTIVE
    /\ perf_events[e].cpu = 0

Scheduled(e) == Live(e) /\ perf_events[e].cpu # 0

\* pmu->add on CPU c; the framework's scheduler passes PERF_EF_START
Add(e, c, flags) ==
    /\ Schedulable(e)
    /\ LET r == armpmu_add(CallState(e, c), e, flags)
       IN  /\ Store(e, c, r.S)
           /\ perf_events' = [perf_events EXCEPT ![e] =
                 IF r.err = 0
                 THEN [@ EXCEPT !.hw = r.S.hwc, !.count = r.S.count, !.cpu = c,
                                !.state = PERF_EVENT_STATE_ACTIVE]
                 ELSE [@ EXCEPT !.hw = r.S.hwc, !.count = r.S.count]]
           /\ addFailed' = (addFailed \/ r.err # 0)
    /\ UNCHANGED <<notTab, initLog, nTicks>>

\* pmu->del on the event's CPU
Del(e) ==
    /\ Scheduled(e)
    /\ LET c == perf_events[e].cpu
           S == armpmu_del(CallState(e, c), {})
       IN  /\ Store(e, c, S)
           /\ perf_events' = [perf_events EXCEPT ![e] =
                 [@ EXCEPT !.hw = S.hwc, !.count = S.count, !.cpu = 0,
                           !.state = PERF_EVENT_STATE_INACTIVE]]
    /\ UNCHANGED <<notTab, initLog, nTicks, addFailed>>

\* pmu->start on the event's CPU
Start(e, flags) ==
    /\ Scheduled(e)
    /\ LET c == perf_events[e].cpu
           S == armpmu_start(CallState(e, c), flags)
       IN  /\ Store(e, c, S)
           /\ perf_events' = [perf_events EXCEPT ![e] =
                 [@ EXCEPT !.hw = S.hwc, !.count = S.count]]
    /\ UNCHANGED <<notTab, initLog, nTicks, addFailed>>

\* pmu->stop on the event's CPU
Stop(e, flags) ==
    /\ Scheduled(e)
    /\ LET c == perf_events[e].cpu
           S == armpmu_stop(CallState(e, c), flags)
       IN  /\ Store(e, c, S)
           /\ perf_events' = [perf_events EXCEPT ![e] =
                 [@ EXCEPT !.hw = S.hwc, !.count = S.count]]
    /\ UNCHANGED <<notTab, initLog, nTicks, addFailed>>

\* pmu->read on the event's CPU; the framework reads active events only
Read(e) ==
    /\ Scheduled(e)
    /\ LET c == perf_events[e].cpu
           S == armpmu_read(CallState(e, c))
       IN  /\ Store(e, c, S)
           /\ perf_events' = [perf_events EXCEPT ![e] =
                 [@ EXCEPT !.hw = S.hwc, !.count = S.count]]
    /\ UNCHANGED <<notTab, initLog, nTicks, addFailed>>

\* the hardware counts one event on an enabled counter of a running PMU
Tick(c, idx) ==
    /\ nTicks < MaxTicks
    /\ pmu_regs[c].running
    /\ idx \in pmu_regs[c].enabled
    /\ pmu_regs' = [pmu_regs EXCEPT ![c].counter[idx] = (@ + 1) % CounterMod]
    /\ nTicks' = nTicks + 1
    /\ UNCHANGED <<notTab, cpu_hw_events, perf_events, initLog, addFailed>>

EventStates == {PERF_EVENT_STATE_OFF, PERF_EVENT_STATE_INACTIVE}

\* the table operations: every event its own leader
TabNext ==
    \/ \E e \in TabEvents, a \in TabAttrs :
          Create(e, a, PERF_EVENT_STATE_INACTIVE, e)
    \/ \E e \in TabEvents, c \in Cpus : Add(e, c, {"PERF_EF_START"})
    \/ \E e \in TabEvents : Del(e)
    \/ \E e \in TabEvents : Start(e, {"PERF_EF_RELOAD"})
    \/ \E e \in TabEvents : Stop(e, {"PERF_EF_UPDATE"})
    \/ \E e \in TabEvents : Read(e)
    \/ \E c \in Cpus, idx \in CounterIdx : Tick(c, idx)

\* group building: events join groups while earlier ones sit in counters
GrpNext ==
    \/ \E e \in EventIds, a \in TabAttrs, st \in EventStates, l \in EventIds :
          Create(e, a, st, l)
    \/ \E e \in EventIds, st \in EventStates, l \in EventIds : CreateOther(e, st, l)
    \/ \E e \in EventIds, c \in Cpus : Add(e, c, {"PERF_EF_START"})

SpecGrp == TabInit /\ [][GrpNext]_vars

SpecTab == TabInit /\ [][TabNext]_vars


\* =========================================================================
\* Delta accounting: armpmu_event_update step by step
\*
\* One event, added and started.  A process-context
\* armpmu_read runs statement by statement; an interrupt on the same CPU
\* runs a whole armpmu_read between any two of its statements.  The counter
\* stops short of wrapping: the overflow interrupt is not part of this
\* specification.
\* =========================================================================

\* the event after armpmu_add with PERF_EF_START, for sample period L
StartedEvent(L) ==
    LET hw0 == [FreshHw([BaseAttr EXCEPT !.config = 1, !.sample_period = L])
                   EXCEPT !.idx = -1,
                          !.config_base.event = ARMV7_PERFCTR_INSTR_EXECUTED]
    IN  armpmu_add([hwc |-> hw0, count |-> 0, tab |-> ZeroTable, reg |-> NoRegs],
                   1, {"PERF_EF_START"}).S

UpdInit ==
    /\ ResIdle
    /\ num_resources = NumCpus
    /\ irq_ok = 0 .. (NumCpus - 1)
    /\ has_filter = TRUE
    /\ TabQuiet
    /\ \E L \in 1 .. max_period :
          /\ u_hwc = StartedEvent(L).hwc
          /\ u_reg = StartedEvent(L).reg
    /\ u_count = 0
    /\ rd = NoFrame
    /\ uTicks = 0
    /\ uCalls = [proc |-> 0, irq |-> 0]
    /\ FunQuiet

notUpd == <<resVars, tabVars, funVars>>

\* the hardware counts one event
U_Tick ==
    /\ u_reg.running /\ u_hwc.idx \in u_reg.enabled
    /\ read_counter(u_reg, u_hwc.idx) < CounterMask
    /\ u_reg' = write_counter(u_reg, u_hwc.idx, read_counter(u_reg, u_hwc.idx) + 1)
    /\ uTicks' = uTicks + 1
    /\ UNCHANGED <<notUpd, u_hwc, u_count, rd, uCalls>>

\* armpmu_read entered from process context: idx >= 0, so the update runs
U_call ==
    /\ rd.pc = "idle"
    /\ uCalls.proc < MaxReads
    /\ u_hwc.idx >= 0
    /\ rd' = [rd EXCEPT !.pc = "read_prev"]
    /\ uCalls' = [uCalls EXCEPT !.proc = @ + 1]
    /\ UNCHANGED <<notUpd, u_hwc, u_count, u_reg, uTicks>>

\* prev_raw_count = local64_read(&hwc->prev_count)
U_read_prev ==
    /\ rd.pc = "read_prev"
    /\ rd' = [rd EXCEPT !.pc = "read_counter", !.prev_raw_count = u_hwc.prev_count]
    /\ UNCHANGED <<notUpd, u_hwc, u_count, u_reg, uTicks, uCalls>>

\* new_raw_count = armpmu->read_counter(idx)
U_read_counter ==
    /\ rd.pc = "read_counter"
    /\ rd' = [rd EXCEPT !.pc = "cmpxchg",
                        !.new_raw_count = read_counter(u_reg, u_hwc.idx)]
    /\ UNCHANGED <<notUpd, u_hwc, u_count, u_reg, uTicks, uCalls>>

\* the shadow stored without comparing it to prev_raw_count
U_cmpxchg_plain_store ==
    /\ rd.pc = "cmpxchg"
    /\ u_hwc' = [u_hwc EXCEPT !.prev_count = rd.new_raw_count,
                              !.prev_by = "cmpxchg"]
    /\ rd' = [rd EXCEPT !.pc = "add_count",
                 !.delta = update_delta(rd.prev_raw_count, rd.new_raw_count, 0)]
    /\ UNCHANGED <<notUpd, u_count, u_reg, uTicks, uCalls>>

\* U_cmpxchg whose retry goes back to the swap itself, with the prev_raw_count
\* it already has
U_cmpxchg_retry_stale ==
    /\ rd.pc = "cmpxchg"
    /\ IF u_hwc.prev_count = rd.prev_raw_count
       THEN /\ u_hwc' = [u_hwc EXCEPT !.prev_count = rd.new_raw_count,
                                      !.prev_by = "cmpxchg"]
            /\ rd' = [rd EXCEPT !.pc = "add_count",
                         !.delta = update_delta(rd.prev_raw_count,
                                                rd.new_raw_count, 0)]
       ELSE /\ rd' = [rd EXCEPT !.retried = TRUE]
            /\ UNCHANGED u_hwc
    /\ UNCHANGED <<notUpd, u_count, u_reg, uTicks, uCalls>>

\* local64_cmpxchg(&hwc->prev_count, prev_raw_count, new_raw_count), goto
\* again if it found another value; then the delta
U_cmpxchg ==
    /\ rd.pc = "cmpxchg"
    /\ IF u_hwc.prev_count = rd.prev_raw_count
       THEN /\ u_hwc' = [u_hwc EXCEPT !.prev_count = rd.new_raw_count,
                                      !.prev_by = "cmpxchg"]
            /\ rd' = [rd EXCEPT !.pc = "add_count",
                         !.delta = update_delta(rd.prev_raw_count,
                                                rd.new_raw_count, 0)]
       ELSE /\ rd' = [rd EXCEPT !.pc = "read_prev", !.retried = TRUE]
            /\ UNCHANGED u_hwc
    /\ UNCHANGED <<notUpd, u_count, u_reg, uTicks, uCalls>>

\* local64_add(delta, &event->count)
U_add_count ==
    /\ rd.pc = "add_count"
    /\ u_count' = U64(u_count + rd.delta)
    /\ rd' = [rd EXCEPT !.pc = "sub_left"]
    /\ UNCHANGED <<notUpd, u_hwc, u_reg, uTicks, uCalls>>

\* local64_sub(delta, &hwc->period_left); return
U_sub_left ==
    /\ rd.pc = "sub_left"
    /\ u_hwc' = [u_hwc EXCEPT !.period_left = S64(@ - rd.delta)]
    /\ rd' = [rd EXCEPT !.pc = "idle"]
    /\ UNCHANGED <<notUpd, u_count, u_reg, uTicks, uCalls>>

\* an interrupt-context armpmu_read, from entry to return
U_irq_read ==
    /\ uCalls.irq < MaxReads
    /\ LET S == armpmu_read([hwc |-> u_hwc, count |-> u_count,
                             tab |-> ZeroTable, reg |-> u_reg])
       IN  /\ u_hwc' = S.hwc
           /\ u_count' = S.count
    /\ uCalls' = [uCalls EXCEPT !.irq = @ + 1]
    /\ UNCHANGED <<notUpd, u_reg, rd, uTicks>>

UpdNext ==
    \/ U_Tick
    \/ U_call
    \/ U_read_prev
    \/ U_read_counter
    \/ U_cmpxchg
    \/ U_add_count
    \/ U_sub_left
    \/ U_irq_read

SpecUpd == UpdInit /\ [][UpdNext]_vars


\* =========================================================================
\* Properties of the counter tables
\* =========================================================================
Occupied(c) == {idx \in CounterIdx : cpu_hw_events[c].events[idx] # 0}
OnCpu(c) == {e \in EventIds : Live(e) /\ perf_events[e].cpu = c}
InSlot(e) == \E c \in Cpus : \E idx \in CounterIdx : cpu_hw_events[c].events[idx] = e
OurEvent(e) == Live(e) /\ perf_events[e].pmu = ARMPMU

\* C1: on every CPU's table, whatever armpmu_add calls (successful or
\* failed) and armpmu_del calls came before, the number of bits set in
\* used_mask is the number of non-empty slots of events[], is the number of
\* events added and not yet removed, and is at most num_events.
C1_OccupancyCounts ==
    \A c \in Cpus :
        /\ Cardinality(cpu_hw_events[c].used_mask) = Cardinality(Occupied(c))
        /\ Cardinality(Occupied(c)) = Cardinality(OnCpu(c))
        /\ Cardinality(cpu_hw_events[c].used_mask) <= num_events
        /\ cpu_hw_events[c].used_mask = Occupied(c)

\* an add has failed, an event has been added and removed again, and a
\* table holds an event
C1_Witness ==
    /\ addFailed
    /\ \E e \in EventIds : OurEvent(e) /\ perf_events[e].cpu = 0
                           /\ perf_events[e].hw.idx >= 0
    /\ \E c \in Cpus : Cardinality(cpu_hw_events[c].used_mask) = 1
                       /\ Cardinality(OnCpu(c)) = 1

\* C4 as stated: an event's hw.idx is non-negative exactly when the event
\* occupies a slot of some CPU's table; after armpmu_del it is negative
\* again.
C4_IdxIffInSlot ==
    \A e \in EventIds : OurEvent(e) => ((perf_events[e].hw.idx >= 0) <=> InSlot(e))

\* C5 as stated: no operation stores hw.prev_count with a plain store; the
\* cmpxchg of armpmu_event_update is its only writer.
C5_ShadowOnlyByCmpxchg ==
    \A e \in EventIds : perf_events[e].hw.prev_by # "local64_set"

\* C5 amended: hw.prev_count changes only in a step whose last store to it
\* is the cmpxchg of armpmu_event_update, which stores the hardware counter
\* just read, or the local64_set of armpmu_event_set_period, which stores
\* (u64)-left and programs the counter with the same value.
C5_ShadowWriters ==
    [][\A e \in EventIds :
          perf_events'[e].hw.prev_count # perf_events[e].hw.prev_count =>
            \/ /\ perf_events'[e].hw.prev_by = "cmpxchg"
               /\ perf_events[e].cpu # 0
               /\ perf_events'[e].hw.prev_count =
                     read_counter(pmu_regs[perf_events[e].cpu],
                                  perf_events[e].hw.idx)
            \/ /\ perf_events'[e].hw.prev_by = "local64_set"
               /\ perf_events'[e].cpu # 0
               /\ perf_events'[e].hw.prev_count =
                     U64(-Min(perf_events'[e].hw.period_left, max_period))
               /\ read_counter(pmu_regs'[perf_events'[e].cpu],
                               perf_events'[e].hw.idx)
                     = BitAnd(perf_events'[e].hw.prev_count, CounterMask)]_vars

\* an event that has counted, whose shadow armpmu_start has then overwritten
C5_Witness ==
    \E e \in EventIds :
        /\ perf_events[e].hw.prev_by = "local64_set"
        /\ perf_events[e].count > 0
        /\ perf_events[e].cpu # 0

C7_ValidateGroupFrame ==
    [][(initLog' # initLog /\ ~initLog'.own_leader) =>
          /\ cpu_hw_events' = cpu_hw_events
          /\ \A d \in EventIds : d # initLog'.e =>
                perf_events'[d].hw = perf_events[d].hw]_vars

\* a member was rejected while its leader sat in a counter
C7_Witness ==
    /\ ~initLog.own_leader /\ initLog.err = -EINVAL
    /\ \E l \in EventIds : Live(l) /\ InSlot(l) /\ perf_events[l].hw.idx >= 0
          /\ \E d \in EventIds : d # l /\ Live(d) /\ perf_events[d].group_leader = l
    /\ \E c \in Cpus : cpu_hw_events[c].used_mask # {}

\* what armpmu_add returns for event e on CPU c in the current state
AddResult(e, c) == armpmu_add(CallState(e, c), e, {"PERF_EF_START"}).err

\* C15: an armpmu_add for which the allocator finds no free counter returns
\* the allocator's error and leaves every CPU's events[] and used_mask, the
\* event's hw.idx and the event's hw.state flags as they were.
C15_FailedAddFrame ==
    [][\A e \in TabEvents, c \in Cpus :
          (Add(e, c, {"PERF_EF_START"}) /\ AddResult(e, c) # 0) =>
              /\ AddResult(e, c)
                    = get_event_idx(cpu_hw_events[c].used_mask, perf_events[e].hw).idx
              /\ AddResult(e, c) = -EAGAIN
              /\ cpu_hw_events' = cpu_hw_events
              /\ perf_events'[e].hw.idx = perf_events[e].hw.idx
              /\ perf_events'[e].hw.state = perf_events[e].hw.state]_vars

\* an add has failed: an event is off every table, never placed, while
\* the cycle counter it needs is taken on some CPU
C15_Witness ==
    /\ addFailed
    /\ \E e \in TabEvents :
          /\ Live(e) /\ perf_events[e].cpu = 0 /\ ~InSlot(e)
          /\ perf_events[e].hw.idx = -1 /\ perf_events[e].hw.state = {}
          /\ perf_events[e].hw.config_base.event = ARMV7_PERFCTR_CPU_CYCLES
          /\ \E c \in Cpus : ARMV7_IDX_CYCLE_COUNTER \in cpu_hw_events[c].used_mask

\* =========================================================================
\* Properties of the delta accounting
\* =========================================================================
Shadow == BitAnd(u_hwc.prev_count, max_period)

\* C3: whenever no process-context update is in progress, the count plus
\* the increments since the last value stored in the shadow is the number
\* of hardware increments since the start: every tick up to the last value
\* read is counted once; when the last read saw the current value, the
\* count after N increments is N.
C3_TicksCountedOnce ==
    rd.pc = "idle" =>
        /\ u_count + (read_counter(u_reg, u_hwc.idx) - Shadow) = uTicks
        /\ Shadow <= read_counter(u_reg, u_hwc.idx)
        /\ (Shadow = read_counter(u_reg, u_hwc.idx) => u_count = uTicks)

\* a process-context read whose cmpxchg failed because of an interrupt read
\* has returned, and the count is the number of ticks
C3_Witness ==
    /\ rd.pc = "idle" /\ rd.retried
    /\ uCalls.proc >= 1 /\ uCalls.irq >= 1
    /\ uTicks >= 2
    /\ u_count = uTicks


\* =========================================================================
\* Single calls: one function applied to arguments drawn from its domain
\* =========================================================================
notFun == <<resVars, tabVars, updVars>>

\* everything but the call at rest
RestQuiet ==
    /\ ResIdle
    /\ num_resources = NumCpus
    /\ irq_ok = 0 .. (NumCpus - 1)
    /\ has_filter = TRUE
    /\ TabQuiet
    /\ UpdQuiet

S64Range == (-(U64Mod \div 2)) .. (U64Mod \div 2 - 1)

\* --- armpmu_event_set_period on period_left = L, sample_period = P
PeriodInit ==
    /\ RestQuiet
    /\ fn_in \in [op : {"set_period"}, L : S64Range, P : 1 .. (U64Mod - 1)]
    /\ fn_out = NoOut

PeriodCall ==
    /\ fn_in.op = "set_period" /\ fn_out = NoOut
    /\ LET hw0 == [FreshHw(BaseAttr) EXCEPT !.idx = 1,
                                            !.period_left = fn_in.L,
                                            !.sample_period = fn_in.P,
                                            !.last_period = 0]
           r == armpmu_event_set_period(
                   [hwc |-> hw0, count |-> 0, tab |-> ZeroTable, reg |-> NoRegs], 1)
       IN  fn_out' = [op |-> "set_period", ret |-> r.ret,
                      period_left |-> r.S.hwc.period_left,
                      last_period |-> r.S.hwc.last_period,
                      prev_count |-> r.S.hwc.prev_count,
                      counter |-> read_counter(r.S.reg, 1)]
    /\ UNCHANGED <<notFun, fn_in>>

SpecPeriod == PeriodInit /\ [][PeriodCall]_vars

\* C12 as stated: for every L and every sample period P > 0 the call
\* reports a change exactly when L <= 0 and leaves period_left at P if
\* L <= -P, at L + P if -P < L <= 0, at L if L > 0: positive in each case.
C12_PeriodReprogrammed ==
    fn_out.op = "set_period" =>
        /\ (fn_out.ret = 1) <=> (fn_in.L <= 0)
        /\ fn_out.period_left =
              (IF fn_in.L <= -fn_in.P THEN fn_in.P
               ELSE IF fn_in.L <= 0 THEN fn_in.L + fn_in.P
               ELSE fn_in.L)
        /\ fn_out.period_left > 0


\* --- armpmu_event_update on a shadow value, a counter value and the flag
CountSamples == {0, 3, U64Mod - 2}
LeftSamples == {-1, 2, max_period}

DeltaInit ==
    /\ RestQuiet
    /\ fn_in \in [op : {"update"}, prev : 0 .. (U64Mod - 1), new : 0 .. CounterMask,
                  overflow : {0, 1}, count : CountSamples, L : LeftSamples]
    /\ fn_out = NoOut

DeltaCall ==
    /\ fn_in.op = "update" /\ fn_out = NoOut
    /\ LET hw0 == [FreshHw(BaseAttr) EXCEPT !.idx = 1,
                                            !.prev_count = fn_in.prev,
                                            !.period_left = fn_in.L,
                                            !.sample_period = max_period,
                                            !.last_period = max_period]
           reg0 == write_counter(NoRegs, 1, fn_in.new)
           r == armpmu_event_update(
                   [hwc |-> hw0, count |-> fn_in.count, tab |-> ZeroTable,
                    reg |-> reg0], 1, fn_in.overflow)
       IN  fn_out' = [op |-> "update", count |-> r.count,
                      period_left |-> r.hwc.period_left,
                      prev_count |-> r.hwc.prev_count]
    /\ UNCHANGED <<notFun, fn_in>>

SpecDelta == DeltaInit /\ [][DeltaCall]_vars

\* the count added by the call, as an unsigned word
Added == U64(fn_out.count - fn_in.count)

\* C13: with both values masked to the counter width, the call adds
\* max_period - prev + new + 1 to the count when the overflow flag is set
\* and new - prev (as an unsigned word) when it is not; the same amount is
\* taken from period_left.
C13_DeltaFormula ==
    fn_out.op = "update" =>
        LET prev == fn_in.prev % CounterMod
            new == fn_in.new % CounterMod
        IN  /\ fn_in.overflow # 0 => Added = (max_period - prev) + new + 1
            /\ fn_in.overflow = 0 =>
                  Added = (IF new >= prev THEN new - prev
                           ELSE U64Mod - (prev - new))
            /\ fn_out.period_left = S64(fn_in.L - Added)

\* the overflow case with prev two below max_period and new = 1: 4 counted
C13_Witness ==
    /\ fn_out.op = "update" /\ fn_in.overflow = 1
    /\ fn_in.prev = U64Mod - 3 /\ fn_in.new = 1
    /\ Added = 4


\* --- armpmu_map_cache_event on a packed cache config
TypeSamples == {0, 1, PERF_COUNT_HW_CACHE_MAX - 1, PERF_COUNT_HW_CACHE_MAX, 255}
OpSamples == {0, 2, PERF_COUNT_HW_CACHE_OP_MAX, 255}
ResultSamples == {0, 1, PERF_COUNT_HW_CACHE_RESULT_MAX, 255}
HighSamples == {0, 1, 5}

\* the config user space builds from a triple; high are the bits above 23
PackCacheConfig(t, o, r, high) == t + 256 * o + 65536 * r + 16777216 * high

CacheInit ==
    /\ RestQuiet
    /\ fn_in \in [op : {"map_cache"}, cache_type : TypeSamples, cache_op : OpSamples,
                  cache_result : ResultSamples, high : HighSamples]
    /\ fn_out = NoOut

CacheCall ==
    /\ fn_in.op = "map_cache" /\ fn_out = NoOut
    /\ LET config == PackCacheConfig(fn_in.cache_type, fn_in.cache_op,
                                     fn_in.cache_result, fn_in.high)
       IN  fn_out' = [op |-> "map_cache", fields |-> cache_decode(config),
                      ret |-> armpmu_map_cache_event(config)]
    /\ UNCHANGED <<notFun, fn_in>>

SpecCache == CacheInit /\ [][CacheCall]_vars

\* C14: the fields decoded from a packed triple are the triple, whatever the
\* bits above 23; the call returns -EINVAL when a field is at or above its
\* maximum, -ENOENT when the table entry is the unsupported marker, and the
\* table entry otherwise.
C14_CacheDecode ==
    fn_out.op = "map_cache" =>
        LET t == fn_in.cache_type
            o == fn_in.cache_op
            r == fn_in.cache_result
        IN  /\ fn_out.fields = [cache_type |-> t, cache_op |-> o, cache_result |-> r]
            /\ (t >= PERF_COUNT_HW_CACHE_MAX \/ o >= PERF_COUNT_HW_CACHE_OP_MAX
                \/ r >= PERF_COUNT_HW_CACHE_RESULT_MAX)
                  <=> fn_out.ret = -EINVAL
            /\ fn_out.ret # -EINVAL =>
                  IF cache_map[t][o][r] = CACHE_OP_UNSUPPORTED
                  THEN fn_out.ret = -ENOENT
                  ELSE fn_out.ret = cache_map[t][o][r]

\* a supported triple with bits above 23 set maps to its table entry, and
\* the triple of type 1, operation 2, result 0 decodes to itself
C14_Witness ==
    /\ fn_out.op = "map_cache"
    /\ \/ /\ fn_in.cache_type = 0 /\ fn_in.cache_op = 0 /\ fn_in.cache_result = 1
          /\ fn_in.high = 5
          /\ fn_out.ret = ARMV7_PERFCTR_L1_DCACHE_ACCESS + 1
       \/ /\ fn_in.cache_type = 1 /\ fn_in.cache_op = 2 /\ fn_in.cache_result = 0
          /\ fn_out.fields = [cache_type |-> 1, cache_op |-> 2, cache_result |-> 0]
          /\ fn_out.ret = -ENOENT


\* --- __hw_perf_event_init on an event that is its own group leader
\* the events armpmu_event_init lets through to __hw_perf_event_init: the
\* map_event check at its entry did not answer -ENOENT.  Generic events are
\* taken within event_map.
HwInitAttrs ==
    {a \in [type : {PERF_TYPE_HARDWARE, PERF_TYPE_HW_CACHE, PERF_TYPE_RAW},
            config : {0, 1, PERF_COUNT_HW_CACHE_MAX},
            sample_period : {0},
            exclude_idle : BOOLEAN, exclude_user : BOOLEAN,
            exclude_kernel : BOOLEAN, exclude_hv : BOOLEAN] :
        /\ a.type = PERF_TYPE_HARDWARE => a.config \in DOMAIN event_map
        /\ \E m \in map_cpu_event(a) : m # -ENOENT}

HwInitInit ==
    /\ ResIdle
    /\ num_resources = NumCpus
    /\ irq_ok = 0 .. (NumCpus - 1)
    /\ has_filter \in BOOLEAN
    /\ TabQuiet
    /\ UpdQuiet
    /\ fn_in \in [op : {"hw_init"}, attr : HwInitAttrs]
    /\ fn_out = NoOut

HwInitCall ==
    /\ fn_in.op = "hw_init" /\ fn_out = NoOut
    /\ LET event == MkEvent(fn_in.attr, ARMPMU, PERF_EVENT_STATE_INACTIVE)
       IN  \E o \in hw_perf_event_init(event, TRUE, event, <<>>, has_filter, <<>>) :
              fn_out' = [op |-> "hw_init", err |-> o.err, hw |-> o.hw]
    /\ UNCHANGED <<notFun, fn_in>>

SpecHwInit == HwInitInit /\ [][HwInitCall]_vars

\* the descriptor asks for at least one mode to be excluded
AsksExclusion == fn_in.attr.exclude_idle \/ fn_in.attr.exclude_user
                 \/ fn_in.attr.exclude_kernel \/ fn_in.attr.exclude_hv
\* the backend cannot honour the descriptor's modes
CannotFilter ==
    ~has_filter \/ set_event_filter(FreshHw(fn_in.attr), fn_in.attr).ret # 0

\* C18 as stated: the call returns -EPERM exactly when the descriptor asks
\* for an exclusion and the backend has no filter or its filter rejects.
C18_EPERMIffExclusion ==
    fn_out.op = "hw_init" =>
        (fn_out.err = -EPERM <=> (AsksExclusion /\ CannotFilter))

\* C18, amended: the event mapping comes first.  If map_event answers an
\* error the call returns that error whatever the descriptor asks; otherwise
\* it returns -EPERM exactly when the descriptor asks for an exclusion and
\* the backend has no filter or its filter rejects.  Without an exclusion
\* the call never returns -EPERM.
C18_EPERMIffExclusionOfMappedEvent ==
    fn_out.op = "hw_init" =>
        \A m \in map_cpu_event(fn_in.attr) :
            /\ m < 0 => fn_out.err = m
            /\ m >= 0 => (fn_out.err = -EPERM <=> (AsksExclusion /\ CannotFilter))
            /\ ~AsksExclusion => fn_out.err # -EPERM

\* a backend with a filter rejects idle exclusion; and an event whose
\* cache config is out of range is refused for that, not for its exclusion
C18_Witness ==
    /\ fn_out.op = "hw_init"
    /\ \/ /\ has_filter /\ fn_in.attr.exclude_idle /\ fn_out.err = -EPERM
          /\ fn_in.attr.type = PERF_TYPE_RAW
       \/ /\ ~has_filter /\ fn_in.attr.exclude_user /\ fn_out.err = -EINVAL
          /\ fn_in.attr.type = PERF_TYPE_HW_CACHE


\* --- validate_group on a group, then the group scheduled on an empty table
\* a group member by what validation looks at: its pmu, its state and, for
\* an event of this backend, the generic event it counts
MemberKinds ==
    [pmu : {ARMPMU}, state : EventStates, config : {0, 1}]
    \cup [pmu : {OTHERPMU}, state : EventStates, config : {0}]

MemberEvent(m) ==
    IF m.pmu = ARMPMU
    THEN InitedEvent([BaseAttr EXCEPT !.config = m.config], event_map[m.config],
                     m.state)
    ELSE MkEvent(BaseAttr, OTHERPMU, m.state)

MaxSiblings == 1

SiblingLists == UNION {[1 .. n -> MemberKinds] : n \in 0 .. MaxSiblings}

ValidateInit ==
    /\ RestQuiet
    /\ fn_in \in [op : {"validate"}, leader : MemberKinds, siblings : SiblingLists,
                  event : {m \in MemberKinds : m.pmu = ARMPMU}]
    /\ fn_out = NoOut

\* leader, siblings in list order, the event itself
GroupMembers ==
    <<MemberEvent(fn_in.leader)>>
    \o [k \in DOMAIN fn_in.siblings |-> MemberEvent(fn_in.siblings[k])]
    \o <<MemberEvent(fn_in.event)>>

\* validate_group(event): the leader first, then the rest, on a zeroed table
ValidateCall ==
    /\ fn_in.op = "validate" /\ fn_out = NoOut
    /\ LET leader == Head(GroupMembers)
           leader_pmu == leader.pmu
       IN  \E o \in validate_event(ZeroTable, leader, leader_pmu) :
           \E v \in (IF o.ok
                     THEN ValidateMembers(Tail(GroupMembers), o.cpuc, leader_pmu)
                     ELSE {[ok |-> FALSE, cpuc |-> o.cpuc]}) :
              fn_out' = [op |-> "validate",
                         leader_skipped |-> (leader.pmu # leader_pmu
                                             \/ leader.state <= PERF_EVENT_STATE_OFF),
                         leader_ok |-> o.ok,
                         leader_used |-> o.cpuc.used_mask,
                         err |-> IF v.ok THEN 0 ELSE -ENOSPC,
                         add_err |-> 0, n_added |-> 0]
    /\ UNCHANGED <<notFun, fn_in>>

RECURSIVE AddMembers(_, _, _, _)
\* armpmu_add for the members from the k-th on, in order, on table tab with
\* registers reg; members of another pmu or disabled are not handed to
\* armpmu_add.  Stops at the first error: [err, n] with n members added.
AddMembers(members, k, tab, reg) ==
    IF k > Len(members) THEN [err |-> 0, n |-> 0]
    ELSE IF members[k].pmu # ARMPMU \/ members[k].state <= PERF_EVENT_STATE_OFF
    THEN AddMembers(members, k + 1, tab, reg)
    ELSE LET r == armpmu_add([hwc |-> members[k].hw, count |-> 0,
                              tab |-> tab, reg |-> reg], k, {"PERF_EF_START"})
         IN  IF r.err # 0 THEN [err |-> r.err, n |-> 0]
             ELSE LET rest == AddMembers(members, k + 1, r.S.tab, r.S.reg)
                  IN  [err |-> rest.err, n |-> rest.n + 1]

\* the accepted group is scheduled on a CPU whose table is empty
GroupSchedIn ==
    /\ fn_out.op = "validate" /\ fn_out.err = 0
    /\ LET r == AddMembers(GroupMembers, 1, ZeroTable, NoRegs)
       IN  fn_out' = [fn_out EXCEPT !.op = "sched", !.add_err = r.err,
                                    !.n_added = r.n]
    /\ UNCHANGED <<notFun, fn_in>>

ValidateNext == ValidateCall \/ GroupSchedIn

SpecValidate == ValidateInit /\ [][ValidateNext]_vars

\* C19 as stated: a leader of another pmu than the validated event's, or a
\* disabled leader, is skipped: validate_event returns at once for it, the
\* verdict is 'valid' and the scratch table is still empty after it.
C19_ForeignOrDisabledLeaderSkipped ==
    (fn_out.op = "validate"
        /\ (fn_in.leader.pmu # fn_in.event.pmu
            \/ fn_in.leader.state <= PERF_EVENT_STATE_OFF))
      => (fn_out.leader_skipped /\ fn_out.leader_ok /\ fn_out.leader_used = {})

\* C20 as stated: when validate_group accepted, armpmu_add succeeds for
\* every member of this backend that is not disabled, added in group order
\* to an empty table.
C20_AcceptedGroupSchedules ==
    fn_out.op = "sched" =>
        /\ fn_out.add_err = 0
        /\ fn_out.n_added =
              Cardinality({k \in DOMAIN GroupMembers :
                              /\ GroupMembers[k].pmu = ARMPMU
                              /\ GroupMembers[k].state > PERF_EVENT_STATE_OFF})


\* =========================================================================
\* Properties of single calls of armpmu_event_set_period
\* =========================================================================

\* C21 as stated: after the call the stored period_left is at most
\* max_period, whatever the sample period.
C21_StoredLeftClamped ==
    fn_out.op = "set_period" => fn_out.period_left <= max_period

\* C21, amended: the clamp is applied to the value programmed, not to the
\* stored period_left.  When the call reports no change, period_left is
\* what it was, above max_period too; the counter is programmed max_period ticks before its
\* overflow when the stored value is above max_period, and period_left ticks
\* before it otherwise.
C21_OnlyProgrammedValueClamped ==
    fn_out.op = "set_period" =>
        /\ fn_out.ret = 0 => fn_out.period_left = fn_in.L
        /\ fn_out.period_left > max_period =>
              fn_out.counter = CounterMod - max_period
        /\ fn_out.period_left \in 1 .. max_period =>
              fn_out.counter = CounterMod - fn_out.period_left

\* a sample period above max_period has been reloaded: it is stored whole
\* and the counter is max_period ticks from overflow
C21_Witness ==
    /\ fn_out.op = "set_period"
    /\ fn_in.L = 0 /\ fn_in.P = max_period + 2
    /\ fn_out.ret = 1
    /\ fn_out.period_left = max_period + 2
    /\ fn_out.counter = CounterMod - max_period

\* C22: the value written to the counter is
\* (2^w - min(period_left, max_period)) mod 2^w for the stored period_left,
\* and the shadow value recorded, masked to the counter width, is the value
\* written.
C22_CounterProgrammed ==
    fn_out.op = "set_period" =>
        /\ fn_out.counter =
              (CounterMod - Min(fn_out.period_left, max_period)) % CounterMod
        /\ fn_out.prev_count % CounterMod = fn_out.counter

\* three ticks left of a longer period: the counter is three below its wrap
\* and the shadow has the bits above the counter width set
C22_Witness ==
    /\ fn_out.op = "set_period"
    /\ fn_in.L = 3 /\ fn_in.P = max_period
    /\ fn_out.ret = 0
    /\ fn_out.counter = CounterMod - 3
    /\ fn_out.prev_count = U64Mod - 3


\* =========================================================================
\* The pmu callbacks statement by statement
\*
\* add, del, start and stop run on one CPU, one call at a time, each
\* statement a step; the hardware counts between any two steps whenever the
\* PMU runs and a counter is enabled.  trace lists the backend operations
\* of the call in progress, in the order they were made.
\* =========================================================================
MaxCalls == 3

ThisCpu == CHOOSE c \in Cpus : \A d \in Cpus : c <= d

NoPre == [hw |-> FreshHw(BaseAttr), count |-> 0, tab |-> ZeroTable,
          enabled |-> {}, running |-> FALSE]

IdleCall == [op |-> "idle", pc |-> "idle", e |-> 0, flags |-> {}, idx |-> 0,
             err |-> 0, trace |-> <<>>, pre |-> NoPre]

\* an event of this backend after a successful armpmu_event_init
NewEvent(e, attr) ==
    LET ev == MkEvent(attr, ARMPMU, PERF_EVENT_STATE_INACTIVE)
        o == CHOOSE r \in hw_perf_event_init(ev, TRUE, ev, <<>>, TRUE, <<>>) : TRUE
    IN  [life |-> "live", attr |-> attr, pmu |-> ARMPMU,
         state |-> PERF_EVENT_STATE_INACTIVE, group_leader |-> e, cpu |-> 0,
         hw |-> o.hw, count |-> 0]

FreeEvent(e) ==
    [life |-> "free", attr |-> BaseAttr, pmu |-> "none",
     state |-> PERF_EVENT_STATE_OFF, group_leader |-> e, cpu |-> 0,
     hw |-> FreshHw(BaseAttr), count |-> 0]

\* pmu_lock is initialised unlocked; the events exist, none is scheduled
CallsInit ==
    /\ ResIdle
    /\ num_resources = NumCpus
    /\ irq_ok = 0 .. (NumCpus - 1)
    /\ has_filter = TRUE
    /\ UpdQuiet
    /\ cpu_hw_events = [c \in Cpus |-> ZeroTable]
    /\ pmu_regs = [c \in Cpus |-> NoRegs]
    /\ \E a \in [TabEvents -> TabAttrs] :
          perf_events = [e \in EventIds |->
                            IF e \in TabEvents THEN NewEvent(e, a[e])
                            ELSE FreeEvent(e)]
    /\ initLog = NoLog
    /\ nTicks = 0
    /\ addFailed = FALSE
    /\ fn_in = [op |-> "calls", n |-> 0, pmu_lock |-> FALSE]
    /\ fn_out = IdleCall

\* what no statement of a callback touches
callFrame == <<resVars, updVars, fn_in, initLog, nTicks, addFailed>>

Here(at) == fn_out.op # "idle" /\ fn_out.pc = at

Snapshot(e) ==
    [hw |-> perf_events[e].hw, count |-> perf_events[e].count,
     tab |-> cpu_hw_events[ThisCpu],
     enabled |-> pmu_regs[ThisCpu].enabled,
     running |-> pmu_regs[ThisCpu].running]

\* the framework calls a callback for event e
Enter(op, at, e, flags) ==
    /\ fn_out = IdleCall
    /\ fn_in.n < MaxCalls
    /\ fn_in' = [fn_in EXCEPT !.n = @ + 1]
    /\ fn_out' = [op |-> op, pc |-> at, e |-> e, flags |-> flags,
                  idx |-> perf_events[e].hw.idx, err |-> 0, trace |-> <<>>,
                  pre |-> Snapshot(e)]
    /\ UNCHANGED <<resVars, updVars, tabVars>>

\* the state the statement works on, and the state it leaves
Cur == CallState(fn_out.e, ThisCpu)

Commit(S) ==
    /\ cpu_hw_events' = [cpu_hw_events EXCEPT ![ThisCpu] = S.tab]
    /\ pmu_regs' = [pmu_regs EXCEPT ![ThisCpu] = S.reg]
    /\ perf_events' = [perf_events EXCEPT ![fn_out.e].hw = S.hwc,
                                          ![fn_out.e].count = S.count]

Goto(at, ops) == fn_out' = [fn_out EXCEPT !.pc = at, !.trace = @ \o ops]

\* where armpmu_stop and armpmu_start return to
AfterStop == IF fn_out.op = "del" THEN "clear_slot" ELSE "ret"
AfterStart == IF fn_out.op = "add" THEN "pmu_enable" ELSE "ret"

\* ----------------------------------------------------------- armpmu_add
Add_call(e, flags) ==
    /\ Schedulable(e)
    /\ Enter("add", "pmu_disable", e, flags)

\* perf_pmu_disable(event->pmu)
Add_pmu_disable ==
    /\ Here("pmu_disable")
    /\ Commit([Cur EXCEPT !.reg = armpmu_disable(Cur.reg)])
    /\ Goto("get_idx", <<"pmu_disable">>)
    /\ UNCHANGED callFrame

\* Add_get_idx that returns at once when there is no counter
Add_get_idx_returns_on_failure ==
    /\ Here("get_idx")
    /\ LET r == get_event_idx(Cur.tab.used_mask, Cur.hwc)
       IN  /\ Commit([Cur EXCEPT !.tab.used_mask = r.used])
           /\ fn_out' = [fn_out EXCEPT
                            !.idx = r.idx,
                            !.err = IF r.idx < 0 THEN r.idx ELSE 0,
                            !.pc = IF r.idx < 0 THEN "ret" ELSE "place",
                            !.trace = @ \o <<"get_event_idx">>]
    /\ UNCHANGED callFrame

\* idx = armpmu->get_event_idx(cpuc, hwc); if (idx < 0) { err = idx; goto out; }
Add_get_idx ==
    /\ Here("get_idx")
    /\ LET r == get_event_idx(Cur.tab.used_mask, Cur.hwc)
       IN  /\ Commit([Cur EXCEPT !.tab.used_mask = r.used])
           /\ fn_out' = [fn_out EXCEPT
                            !.idx = r.idx,
                            !.err = IF r.idx < 0 THEN r.idx ELSE 0,
                            !.pc = IF r.idx < 0 THEN "pmu_enable" ELSE "place",
                            !.trace = @ \o <<"get_event_idx">>]
    /\ UNCHANGED callFrame

\* event->hw.idx = idx; armpmu->disable(hwc, idx); cpuc->events[idx] = event;
\* hwc->state = PERF_HES_STOPPED | PERF_HES_UPTODATE;
Add_place ==
    /\ Here("place")
    /\ Commit([Cur EXCEPT !.hwc.idx = fn_out.idx,
                          !.reg = backend_disable(Cur.reg, fn_out.idx),
                          !.tab.events[fn_out.idx] = fn_out.e,
                          !.hwc.state = {PERF_HES_STOPPED, PERF_HES_UPTODATE}])
    /\ Goto(IF "PERF_EF_START" \in fn_out.flags THEN "start_clear" ELSE "pmu_enable",
            <<"disable">>)
    /\ UNCHANGED callFrame

\* out: perf_pmu_enable(event->pmu)
Add_pmu_enable ==
    /\ Here("pmu_enable")
    /\ Commit([Cur EXCEPT !.reg = armpmu_enable(Cur.tab, Cur.reg)])
    /\ Goto("ret", <<"pmu_enable">>)
    /\ UNCHANGED callFrame

\* --------------------------------------------------------- armpmu_start
\* the framework starts stopped events only
Start_call(e, flags) ==
    /\ Scheduled(e)
    /\ PERF_HES_STOPPED \in perf_events[e].hw.state
    /\ Enter("start", "start_clear", e, flags)

\* hwc->state = 0
Start_clear ==
    /\ Here("start_clear")
    /\ Commit([Cur EXCEPT !.hwc.state = {}])
    /\ Goto("start_period", <<"clear_state">>)
    /\ UNCHANGED callFrame

\* Start_period that reprograms the period only when asked to reload
Start_period_on_reload ==
    /\ Here("start_period")
    /\ IF "PERF_EF_RELOAD" \in fn_out.flags
       THEN /\ Commit(armpmu_event_set_period(Cur, Cur.hwc.idx).S)
            /\ Goto("start_enable", <<"set_period">>)
       ELSE /\ Commit(Cur)
            /\ Goto("start_enable", <<>>)
    /\ UNCHANGED callFrame

\* armpmu_event_set_period(event, hwc, hwc->idx)
Start_period ==
    /\ Here("start_period")
    /\ Commit(armpmu_event_set_period(Cur, Cur.hwc.idx).S)
    /\ Goto("start_enable", <<"set_period">>)
    /\ UNCHANGED callFrame

\* armpmu->enable(hwc, hwc->idx)
Start_enable ==
    /\ Here("start_enable")
    /\ Commit([Cur EXCEPT !.reg = backend_enable(Cur.reg, Cur.hwc.idx)])
    /\ Goto(AfterStart, <<"enable">>)
    /\ UNCHANGED callFrame

\* ---------------------------------------------------------- armpmu_stop
Stop_call(e, flags) ==
    /\ Scheduled(e)
    /\ Enter("stop", "stop_test", e, flags)

\* if (!(hwc->state & PERF_HES_STOPPED))
Stop_test ==
    /\ Here("stop_test")
    /\ Commit(Cur)
    /\ Goto(IF PERF_HES_STOPPED \notin Cur.hwc.state THEN "stop_disable"
            ELSE AfterStop, <<>>)
    /\ UNCHANGED callFrame

\* armpmu->disable(hwc, hwc->idx)
Stop_disable ==
    /\ Here("stop_disable")
    /\ Commit([Cur EXCEPT !.reg = backend_disable(Cur.reg, Cur.hwc.idx)])
    /\ Goto("stop_update", <<"disable">>)
    /\ UNCHANGED callFrame

\* Stop_update that accounts only when the caller passed PERF_EF_UPDATE
Stop_update_on_flag ==
    /\ Here("stop_update")
    /\ IF "PERF_EF_UPDATE" \in fn_out.flags
       THEN /\ Commit(armpmu_event_update(Cur, Cur.hwc.idx, 0))
            /\ Goto("stop_state", <<"update">>)
       ELSE /\ Commit(Cur)
            /\ Goto("stop_state", <<>>)
    /\ UNCHANGED callFrame

\* armpmu_event_update(event, hwc, hwc->idx, 0)
Stop_update ==
    /\ Here("stop_update")
    /\ Commit(armpmu_event_update(Cur, Cur.hwc.idx, 0))
    /\ Goto("stop_state", <<"update">>)
    /\ UNCHANGED callFrame

\* hwc->state |= PERF_HES_STOPPED | PERF_HES_UPTODATE
Stop_state ==
    /\ Here("stop_state")
    /\ Commit([Cur EXCEPT !.hwc.state = @ \cup {PERF_HES_STOPPED, PERF_HES_UPTODATE}])
    /\ Goto(AfterStop, <<>>)
    /\ UNCHANGED callFrame

\* ----------------------------------------------------------- armpmu_del
\* Del_call that empties the slot before the event is stopped
Del_call_clears_first(e) ==
    /\ Scheduled(e)
    /\ fn_out = IdleCall
    /\ fn_in.n < MaxCalls
    /\ fn_in' = [fn_in EXCEPT !.n = @ + 1]
    /\ fn_out' = [op |-> "del", pc |-> "stop_test", e |-> e, flags |-> {},
                  idx |-> perf_events[e].hw.idx, err |-> 0, trace |-> <<>>,
                  pre |-> Snapshot(e)]
    /\ cpu_hw_events' = [cpu_hw_events EXCEPT
                            ![ThisCpu].events[perf_events[e].hw.idx] = 0]
    /\ UNCHANGED <<resVars, updVars, pmu_regs, perf_events, initLog, nTicks,
                   addFailed>>

\* int idx = hwc->idx; then armpmu_stop(event, PERF_EF_UPDATE)
Del_call(e) ==
    /\ Scheduled(e)
    /\ Enter("del", "stop_test", e, {"PERF_EF_UPDATE"})

\* cpuc->events[idx] = NULL
Del_clear_slot ==
    /\ Here("clear_slot")
    /\ Commit([Cur EXCEPT !.tab.events[fn_out.idx] = 0])
    /\ Goto("clear_bit", <<"clear_slot">>)
    /\ UNCHANGED callFrame

\* clear_bit(idx, cpuc->used_mask)
Del_clear_bit ==
    /\ Here("clear_bit")
    /\ Commit([Cur EXCEPT !.tab.used_mask = @ \ {fn_out.idx}])
    /\ Goto("ret", <<"clear_bit">>)
    /\ UNCHANGED callFrame

\* the callback returns; the framework records where the event is
Call_ret ==
    /\ Here("ret")
    /\ perf_events' = [perf_events EXCEPT ![fn_out.e] =
          IF fn_out.op = "add" /\ fn_out.err = 0
          THEN [@ EXCEPT !.cpu = ThisCpu, !.state = PERF_EVENT_STATE_ACTIVE]
          ELSE IF fn_out.op = "del"
          THEN [@ EXCEPT !.cpu = 0, !.state = PERF_EVENT_STATE_INACTIVE]
          ELSE @]
    /\ addFailed' = (addFailed \/ fn_out.err # 0)
    /\ fn_out' = IdleCall
    /\ UNCHANGED <<resVars, updVars, fn_in, cpu_hw_events, pmu_regs, initLog, nTicks>>

StartFlags == {{}, {"PERF_EF_RELOAD"}}
StopFlags == {{}, {"PERF_EF_UPDATE"}}
AddFlags == {{}, {"PERF_EF_START"}}

CallsNext ==
    \/ \E e \in TabEvents, f \in AddFlags : Add_call(e, f)
    \/ Add_pmu_disable
    \/ Add_get_idx
    \/ Add_place
    \/ Add_pmu_enable
    \/ \E e \in TabEvents, f \in StartFlags : Start_call(e, f)
    \/ Start_clear
    \/ Start_period
    \/ Start_enable
    \/ \E e \in TabEvents, f \in StopFlags : Stop_call(e, f)
    \/ Stop_test
    \/ Stop_disable
    \/ Stop_update
    \/ Stop_state
    \/ \E e \in TabEvents : Del_call(e)
    \/ Del_clear_slot
    \/ Del_clear_bit
    \/ Call_ret
    \/ \E idx \in CounterIdx : Tick(ThisCpu, idx)

SpecCalls == CallsInit /\ [][CallsNext]_vars

\* =========================================================================
\* Properties of the callbacks statement by statement
\* =========================================================================
CallEvent == perf_events[fn_out.e]
CallRegs == pmu_regs[ThisCpu]
CallTable == cpu_hw_events[ThisCpu]

\* C23: every armpmu_start, with or without PERF_EF_RELOAD, clears the
\* stopped and up-to-date flags, then reprograms the period with
\* armpmu_event_set_period, and only then enables the backend counter: when
\* the enable is about to run the period is already programmed (the shadow
\* was stored by set_period and the counter was written from it), and at the
\* return the three operations were made in that order, the state is 0 and
\* the counter is enabled.
C23_StartReprogramsThenEnables ==
    /\ (fn_out.op = "start" /\ fn_out.pc = "start_enable") =>
          /\ fn_out.trace = <<"clear_state", "set_period">>
          /\ CallEvent.hw.state = {}
          /\ CallEvent.hw.prev_by = "local64_set"
    /\ (fn_out.op = "start" /\ fn_out.pc = "ret") =>
          /\ fn_out.trace = <<"clear_state", "set_period", "enable">>
          /\ CallEvent.hw.state = {}
          /\ CallEvent.hw.idx \in CallRegs.enabled

\* a start without PERF_EF_RELOAD of an event that had counted returns with
\* the period reprogrammed
C23_Witness ==
    /\ fn_out.op = "start"
    /\ fn_out.pc = "ret"
    /\ fn_out.flags = {}
    /\ CallEvent.count > 0
    /\ fn_out.pre.hw.state = {PERF_HES_STOPPED, PERF_HES_UPTODATE}
    /\ CallEvent.hw.prev_by = "local64_set"
    /\ fn_out.trace = <<"clear_state", "set_period", "enable">>

\* C24: armpmu_stop on an event that is not stopped disables the backend
\* counter first and then makes exactly one delta-accounting pass, with or
\* without PERF_EF_UPDATE, and leaves the state stopped and up to date (at
\* the return the counter is disabled and the shadow is the counter value
\* the pass read); armpmu_stop on a stopped event makes no backend
\* operation and changes nothing of the event, the table or the enables.
C24_StopDisablesThenAccountsOnce ==
    (fn_out.op = "stop" /\ fn_out.pc = "ret") =>
        IF PERF_HES_STOPPED \notin fn_out.pre.hw.state
        THEN /\ fn_out.trace = <<"disable", "update">>
             /\ {PERF_HES_STOPPED, PERF_HES_UPTODATE} \subseteq CallEvent.hw.state
             /\ CallEvent.hw.idx \notin CallRegs.enabled
             /\ CallEvent.hw.prev_by = "cmpxchg"
             /\ BitAnd(CallEvent.hw.prev_count, CounterMask)
                    = read_counter(CallRegs, CallEvent.hw.idx)
        ELSE /\ fn_out.trace = <<>>
             /\ CallEvent.hw = fn_out.pre.hw
             /\ CallEvent.count = fn_out.pre.count
             /\ CallTable = fn_out.pre.tab
             /\ CallRegs.enabled = fn_out.pre.enabled
             /\ CallRegs.running = fn_out.pre.running

\* a stop without PERF_EF_UPDATE of a counting event accounts the tick
C24_Witness ==
    /\ fn_out.op = "stop"
    /\ fn_out.pc = "ret"
    /\ fn_out.flags = {}
    /\ fn_out.pre.hw.state = {}
    /\ fn_out.pre.count = 0
    /\ CallEvent.count = 1
    /\ fn_out.trace = <<"disable", "update">>

\* a stop of an event that is already stopped
C24_WitnessStopped ==
    /\ fn_out.op = "stop"
    /\ fn_out.pc = "ret"
    /\ PERF_HES_STOPPED \in fn_out.pre.hw.state
    /\ fn_out.trace = <<>>

InStop == {"stop_test", "stop_disable", "stop_update", "stop_state"}

\* C25: armpmu_del first stops the event, so the final delta is accounted
\* while the event still owns its slot (slot idx holds the event and bit idx
\* is set during every statement of the stop), and only then empties
\* events[idx] and clears bit idx; at the return the event is stopped and
\* up to date, an event that was running has had its one accounting pass
\* before the slot was emptied, and no other slot or bit has changed.
C25_DelStopsThenClears ==
    /\ (fn_out.op = "del" /\ fn_out.pc \in InStop \cup {"clear_slot"}) =>
          /\ CallTable.events[fn_out.idx] = fn_out.e
          /\ fn_out.idx \in CallTable.used_mask
    /\ (fn_out.op = "del" /\ fn_out.pc = "clear_slot") =>
          {PERF_HES_STOPPED, PERF_HES_UPTODATE} \subseteq CallEvent.hw.state
    /\ (fn_out.op = "del" /\ fn_out.pc = "ret") =>
          /\ fn_out.trace =
                (IF PERF_HES_STOPPED \in fn_out.pre.hw.state THEN <<>>
                 ELSE <<"disable", "update">>) \o <<"clear_slot", "clear_bit">>
          /\ CallTable.events = [fn_out.pre.tab.events EXCEPT ![fn_out.idx] = 0]
          /\ CallTable.used_mask = fn_out.pre.tab.used_mask \ {fn_out.idx}
          /\ {PERF_HES_STOPPED, PERF_HES_UPTODATE} \subseteq CallEvent.hw.state

\* a del of a counting event, next to another scheduled event, returns with
\* the tick accounted, its slot empty and the other slot as it was
C25_Witness ==
    /\ fn_out.op = "del"
    /\ fn_out.pc = "ret"
    /\ fn_out.pre.hw.state = {}
    /\ fn_out.pre.count = 0
    /\ CallEvent.count = 1
    /\ CallTable.events[fn_out.idx] = 0
    /\ \E j \in CounterIdx : j # fn_out.idx /\ CallTable.events[j] # 0
                             /\ j \in CallTable.used_mask

InAddBody == {"get_idx", "place", "start_clear", "start_period",
              "start_enable", "pmu_enable"}

RECURSIVE Occurrences(_, _)
Occurrences(seq, x) ==
    IF seq = <<>> THEN 0
    ELSE (IF Head(seq) = x THEN 1 ELSE 0) + Occurrences(Tail(seq), x)

\* C26: armpmu_add brackets its work between perf_pmu_disable and
\* perf_pmu_enable: the disable is its first operation, made before the
\* allocator is consulted, and the PMU is stopped during the whole body; the
\* enable is made exactly once, as the last operation before the return, on
\* the success path and on the no-counter path alike, so that armpmu_add
\* never returns with the PMU disabled by it.
C26_AddBracketsPmuDisable ==
    /\ (fn_out.op = "add" /\ fn_out.pc \in InAddBody) =>
          /\ Head(fn_out.trace) = "pmu_disable"
          /\ Occurrences(fn_out.trace, "pmu_enable") = 0
          /\ ~CallRegs.running
    /\ (fn_out.op = "add" /\ fn_out.pc = "ret") =>
          /\ Len(fn_out.trace) >= 3
          /\ fn_out.trace[1] = "pmu_disable"
          /\ fn_out.trace[2] = "get_event_idx"
          /\ fn_out.trace[Len(fn_out.trace)] = "pmu_enable"
          /\ Occurrences(fn_out.trace, "pmu_disable") = 1
          /\ Occurrences(fn_out.trace, "pmu_enable") = 1
          /\ (fn_out.err # 0 => fn_out.trace =
                 <<"pmu_disable", "get_event_idx", "pmu_enable">>)
          /\ CallRegs.running

\* an add that finds no counter returns -EAGAIN with the PMU running again
C26_Witness ==
    /\ fn_out.op = "add"
    /\ fn_out.pc = "ret"
    /\ fn_out.err = -EAGAIN
    /\ fn_out.trace = <<"pmu_disable", "get_event_idx", "pmu_enable">>
    /\ fn_out.pre.running
    /\ CallRegs.running

\* the backend register operations among the operations of a call
RegisterOps == {"enable", "disable", "set_period", "update"}

\* C30: every register read-modify-write sequence made by armpmu_add,
\* armpmu_del, armpmu_start and armpmu_stop (the backend's enable, disable,
\* read_counter and write_counter) runs while the CPU's pmu_lock is held:
\* whenever the last operation of the call in progress was one of them, the
\* lock is held.
C30_RegisterOpsUnderPmuLock ==
    (fn_out.op # "idle" /\ fn_out.trace # <<>>
     /\ fn_out.trace[Len(fn_out.trace)] \in RegisterOps)
        => fn_in.pmu_lock

\* C36: an event in the stopped state (after armpmu_stop, or after
\* armpmu_add without PERF_EF_START) has its hardware counter disabled until
\* its next armpmu_start: between calls, and during calls for other
\* events, the counter of every scheduled, stopped event is disabled; the
\* perf_pmu_disable / perf_pmu_enable bracket of armpmu_add does not
\* re-enable it.
C36_StoppedCounterStaysDisabled ==
    \A e \in TabEvents :
        (Scheduled(e) /\ PERF_HES_STOPPED \in perf_events[e].hw.state
         /\ (fn_out.op = "idle" \/ fn_out.e # e))
            => perf_events[e].hw.idx \notin pmu_regs[ThisCpu].enabled

\* =========================================================================
\* Properties of the reserve and release passes
\* =========================================================================
\* C27: armpmu_reserve_hardware fails with -ENODEV when fewer than one
\* interrupt is available in total, be it that the platform device has no
\* interrupt resource or that no resource yields an interrupt that ends up
\* claimed; so a reserve pass that is about to return 0 has recorded at
\* least one interrupt in active_irqs.
C27_SuccessRecordsAnInterrupt ==
    \A p \in Cpus :
        (pc[p] = "EI_inc" /\ rh[p].ran) =>
            /\ (Irqs < 1 /\ rh[p].pmu_ok) => err[p] = -ENODEV
            /\ err[p] = 0 => active_irqs # {}

\* =========================================================================
\* Single iterations of the loop of armpmu_reserve_hardware
\*
\* A reserve pass is under way on one CPU: the platform reservation is
\* held, the mutex is held, resources 0 .. i-1 have been handled.  The
\* results of irq_set_affinity and request_irq for resource i are drawn.
\* =========================================================================
IterInit ==
    /\ num_resources \in 1 .. (MaxIrqs + 1)
    /\ irq_ok \in SUBSET (0 .. (num_resources - 1))
    /\ has_filter = TRUE
    /\ \E i \in 0 .. (Irqs - 1) :
          /\ ri = [p \in Cpus |-> IF p = ThisCpu THEN i ELSE 0]
          /\ active_irqs \in SUBSET (irq_ok \cap (0 .. (i - 1)))
    /\ irq_requested = active_irqs
    /\ pmu_reserved = TRUE
    /\ active_events = 0
    /\ reserve_mutex = ThisCpu
    /\ pc = [p \in Cpus |-> IF p = ThisCpu THEN "RH_loop" ELSE "idle"]
    /\ err = [p \in Cpus |-> 0]
    /\ rh = [p \in Cpus |-> IF p = ThisCpu
                            THEN [NoPass EXCEPT !.ran = TRUE, !.pmu_ok = TRUE]
                            ELSE NoPass]
    /\ cur = [p \in Cpus |-> NoEvent]
    /\ nInit = 1 /\ nAdmit = 0 /\ nDestroy = 0 /\ nReserve = 1 /\ nRelease = 0
    /\ nSlow = 0 /\ dOverlap = FALSE
    /\ TabQuiet
    /\ UpdQuiet
    /\ fn_in \in [op : {"reserve_iter"}, aff_err : AffinityResults,
                  req_err : {0, -EBUSY}]
    /\ fn_out = NoOut

\* the body of the loop for resource ri, with the drawn results
IterCall ==
    /\ fn_in.op = "reserve_iter" /\ fn_out = NoOut
    /\ pc[ThisCpu] = "RH_loop" /\ ri[ThisCpu] < Irqs
    /\ LET r == reserve_hardware_iter(HwState, ri[ThisCpu], Irqs,
                                      fn_in.aff_err, fn_in.req_err)
       IN  /\ SetHwState(r.S)
           /\ err' = [err EXCEPT ![ThisCpu] = r.err]
           /\ ri' = [ri EXCEPT ![ThisCpu] = IF r.ret THEN 0 ELSE @ + 1]
           /\ rh' = [rh EXCEPT ![ThisCpu].req_fail = r.ret]
           /\ pc' = [pc EXCEPT ![ThisCpu] = IF r.ret THEN "EI_inc" ELSE "RH_loop"]
           /\ fn_out' = [op |-> "reserve_iter", i |-> ri[ThisCpu],
                         err |-> r.err, ret |-> r.ret, pre |-> HwState]
    /\ UNCHANGED <<ghostVars, active_events, reserve_mutex, platform, tabVars,
                   updVars, fn_in, cur, nInit, nAdmit, nDestroy, nReserve,
                   nRelease>>

SpecIter == IterInit /\ [][IterCall]_vars

\* C28: a failure to bind an interrupt to its CPU never ends the pass.
\* With more than one interrupt resource the iteration skips that
\* interrupt: it is neither requested nor recorded, nothing else changes and
\* the loop goes on with the next resource.  With exactly one resource the
\* interrupt is requested all the same, and recorded when the request
\* succeeds; only a failing request_irq ends the pass.
C28_AffinityFailureNotFatal ==
    (fn_out.op = "reserve_iter" /\ fn_in.aff_err # 0 /\ fn_out.i \in irq_ok) =>
        IF Irqs > 1
        THEN /\ HwState = fn_out.pre
             /\ fn_out.i \notin active_irqs /\ fn_out.i \notin irq_requested
             /\ ~fn_out.ret /\ fn_out.err = 0
             /\ pc[ThisCpu] = "RH_loop" /\ ri[ThisCpu] = fn_out.i + 1
        ELSE IF fn_in.req_err = 0
        THEN /\ active_irqs = fn_out.pre.active_irqs \cup {fn_out.i}
             /\ irq_requested = fn_out.pre.irq_requested \cup {fn_out.i}
             /\ ~fn_out.ret /\ fn_out.err = 0
             /\ pc[ThisCpu] = "RH_loop"
        ELSE fn_out.ret /\ fn_out.err = fn_in.req_err

\* uniprocessor mode: the affinity could not be set, the single interrupt
\* is requested and recorded
C28_Witness ==
    /\ fn_out.op = "reserve_iter"
    /\ fn_in.aff_err = -EINVAL /\ fn_in.req_err = 0
    /\ Irqs = 1
    /\ fn_out.pre.active_irqs = {}
    /\ active_irqs = {0} /\ irq_requested = {0}
    /\ ~fn_out.ret

\* several interrupts: the one whose affinity could not be set is skipped
C28_WitnessSkipped ==
    /\ fn_out.op = "reserve_iter"
    /\ fn_in.aff_err = -EINVAL
    /\ Irqs = 2 /\ fn_out.i = 1 /\ 1 \in irq_ok
    /\ active_irqs = {0}
    /\ ~fn_out.ret

\* =========================================================================
\* Properties of event_init and destroy on several CPUs: interrupts
\* =========================================================================
\* C29: armpmu_release_hardware frees exactly the interrupts recorded in
\* active_irqs, each once and none that was not requested (the recorded
\* interrupts are at all times the requested ones), leaves active_irqs empty
\* and always releases the platform reservation (seen after the release of
\* the last event and after the release of a failed reserve pass); so a
\* reserve pass never requests an interrupt that is still requested: when
\* its loop is at resource i, only resources below i are requested.
C29_ReleaseFreesRecorded ==
    /\ active_irqs = irq_requested
    /\ \A p \in Cpus :
          /\ (pc[p] = "HD_unlock" /\ active_events = 0) =>
                (active_irqs = {} /\ irq_requested = {} /\ ~pmu_reserved)
          /\ (pc[p] = "EI_inc" /\ rh[p].req_fail) =>
                (active_irqs = {} /\ irq_requested = {} /\ ~pmu_reserved)
          /\ pc[p] = "RH_loop" =>
                \A i \in irq_requested : i < ri[p]

\* after a release a second reserve pass has requested interrupt 0 again and
\* is about to request interrupt 1
C29_Witness ==
    /\ nRelease = 1 /\ nReserve = 2
    /\ \E p \in Cpus : pc[p] = "RH_loop" /\ ri[p] = 1
    /\ active_irqs = {0} /\ irq_requested = {0}
    /\ 1 \in irq_ok

\* =========================================================================
\* Single calls of armpmu_event_init up to its first return
\*
\* One CPU calls armpmu_event_init for a fresh event, with no other call in
\* progress, either before any event exists or with one event alive and the
\* hardware reserved.  The call runs up to 'event->destroy = ...': it has
\* either returned -ENOENT or is about to try atomic_inc_not_zero.
\* =========================================================================
EnterAttrs ==
    [type : {PERF_TYPE_HARDWARE, PERF_TYPE_SOFTWARE, PERF_TYPE_HW_CACHE,
             PERF_TYPE_RAW},
     config : {0, 1, 2, PERF_COUNT_HW_CACHE_MAX},
     sample_period : {0},
     exclude_idle : BOOLEAN, exclude_user : BOOLEAN,
     exclude_kernel : {FALSE}, exclude_hv : {FALSE}]

EnterInit ==
    /\ num_resources = NumCpus
    /\ irq_ok = 0 .. (NumCpus - 1)
    /\ has_filter = TRUE
    /\ active_events \in {0, 1}
    /\ reserve_mutex = 0
    /\ pmu_reserved = (active_events = 1)
    /\ active_irqs = IF active_events = 1 THEN irq_ok ELSE {}
    /\ irq_requested = active_irqs
    /\ pc = [p \in Cpus |-> "idle"]
    /\ err = [p \in Cpus |-> 0]
    /\ ri = [p \in Cpus |-> 0]
    /\ rh = [p \in Cpus |-> NoPass]
    /\ cur = [p \in Cpus |-> NoEvent]
    /\ nInit = active_events /\ nAdmit = active_events /\ nDestroy = 0
    /\ nReserve = active_events /\ nRelease = 0
    /\ nSlow = 0 /\ dOverlap = FALSE
    /\ TabQuiet
    /\ UpdQuiet
    /\ fn_in \in [op : {"event_init"}, attr : EnterAttrs]
    /\ fn_out = NoOut

\* the entry with the destroy callback installed before the mapping is looked at
armpmu_event_init_entry_installs_first(event, destroy) ==
    {IF m = -ENOENT
     THEN [mapping |-> m, returned |-> TRUE, ret |-> -ENOENT,
           destroy |-> "hw_perf_event_destroy"]
     ELSE [mapping |-> m, returned |-> FALSE, ret |-> 0,
           destroy |-> "hw_perf_event_destroy"] : m \in map_event(event)}

\* if (armpmu->map_event(event) == -ENOENT) return -ENOENT;
\* event->destroy = hw_perf_event_destroy;
\* destroy is the event's destroy callback on entry
armpmu_event_init_entry(event, destroy) ==
    {IF m = -ENOENT
     THEN [mapping |-> m, returned |-> TRUE, ret |-> -ENOENT,
           destroy |-> destroy]
     ELSE [mapping |-> m, returned |-> FALSE, ret |-> 0,
           destroy |-> "hw_perf_event_destroy"] : m \in map_event(event)}

EnterCall ==
    /\ fn_in.op = "event_init" /\ fn_out = NoOut
    /\ pc[ThisCpu] = "idle"
    /\ nInit' = nInit + 1
    /\ \E o \in armpmu_event_init_entry(
                   MkEvent(fn_in.attr, ARMPMU, PERF_EVENT_STATE_INACTIVE), "none") :
          /\ fn_out' = [op |-> "event_init", mapping |-> o.mapping,
                        returned |-> o.returned, ret |-> o.ret,
                        destroy |-> o.destroy,
                        pre |-> [active_events |-> active_events, hw |-> HwState]]
          /\ pc' = [pc EXCEPT ![ThisCpu] = IF o.returned THEN "idle" ELSE "EI_incnz"]
    /\ UNCHANGED <<ghostVars, active_events, reserve_mutex, hwVars, platform, tabVars, updVars,
                   err, ri, rh, cur, nAdmit, nDestroy, nReserve, nRelease, fn_in>>

SpecEnter == EnterInit /\ [][EnterCall]_vars

\* C31: when map_event answers -ENOENT, armpmu_event_init returns -ENOENT
\* and has changed nothing: active_events is as before, reserve_mutex is
\* free, no reservation was attempted (the interrupts and the platform
\* reservation are as before, no reserve pass was counted), the CPU is out
\* of the call and the event still has no destroy callback.  Any other
\* mapping result lets the call go on with the callback installed.
C31_UnsupportedReturnsUntouched ==
    fn_out.op = "event_init" =>
        IF fn_out.mapping = -ENOENT
        THEN /\ fn_out.returned /\ fn_out.ret = -ENOENT
             /\ fn_out.destroy = "none"
             /\ active_events = fn_out.pre.active_events
             /\ reserve_mutex = 0
             /\ HwState = fn_out.pre.hw
             /\ nReserve = fn_out.pre.active_events
             /\ nAdmit = fn_out.pre.active_events
             /\ pc[ThisCpu] = "idle"
        ELSE /\ ~fn_out.returned
             /\ fn_out.destroy = "hw_perf_event_destroy"
             /\ pc[ThisCpu] = "EI_incnz"

\* a software event is offered while the hardware is reserved for another
\* event: -ENOENT, count still 1, no callback
C31_Witness ==
    /\ fn_out.op = "event_init"
    /\ fn_in.attr.type = PERF_TYPE_SOFTWARE
    /\ fn_out.ret = -ENOENT /\ fn_out.returned
    /\ fn_out.destroy = "none"
    /\ active_events = 1 /\ pmu_reserved

\* =========================================================================
\* The callbacks with pmu->read
\*
\* As SpecCalls, and armpmu_read may be called between two calls for any
\* event that exists, scheduled or not.
\* =========================================================================
\* armpmu_read(event); the call is recorded until it returns
Read_call(e) ==
    /\ fn_out = IdleCall
    /\ Live(e)
    /\ LET S == armpmu_read(CallState(e, ThisCpu))
       IN  /\ cpu_hw_events' = [cpu_hw_events EXCEPT ![ThisCpu] = S.tab]
           /\ pmu_regs' = [pmu_regs EXCEPT ![ThisCpu] = S.reg]
           /\ perf_events' = [perf_events EXCEPT ![e].hw = S.hwc,
                                                 ![e].count = S.count]
    /\ fn_out' = [op |-> "read", pc |-> "ret", e |-> e, flags |-> {},
                  idx |-> perf_events[e].hw.idx, err |-> 0,
                  trace |-> IF perf_events[e].hw.idx < 0 THEN <<>>
                            ELSE <<"read_counter">>,
                  pre |-> Snapshot(e)]
    /\ UNCHANGED callFrame

ReadNext ==
    \/ CallsNext
    \/ \E e \in TabEvents : Read_call(e)

SpecRead == CallsInit /\ [][ReadNext]_vars

\* C32: armpmu_read of an event that is not scheduled on a counter, be it
\* never added or added and removed by armpmu_del, reads no hardware counter
\* and leaves the event's count, period_left and shadow value as they were.
C32_ReadOfUnscheduledIsNoOp ==
    (fn_out.op = "read" /\ ~Scheduled(fn_out.e)) =>
        /\ fn_out.trace = <<>>
        /\ CallEvent.count = fn_out.pre.count
        /\ CallEvent.hw.period_left = fn_out.pre.hw.period_left
        /\ CallEvent.hw.prev_count = fn_out.pre.hw.prev_count

\* =========================================================================
\* Single calls of map_cpu_event
\* =========================================================================
MapInit ==
    /\ RestQuiet
    /\ fn_in \in [op : {"map_event"},
                  type : {PERF_TYPE_HARDWARE, PERF_TYPE_SOFTWARE,
                          PERF_TYPE_HW_CACHE, PERF_TYPE_RAW},
                  config : 0 .. (U64Mod - 1)]
    /\ fn_out = NoOut

\* index is the position of event_map the call reads, -1 when it reads none:
\* armpmu_map_event indexes the table with config as it comes
MapCall ==
    /\ fn_in.op = "map_event" /\ fn_out = NoOut
    /\ \E m \in map_cpu_event([BaseAttr EXCEPT !.type = fn_in.type,
                                              !.config = fn_in.config]) :
          fn_out' = [op |-> "map_event", ret |-> m,
                     index |-> IF fn_in.type = PERF_TYPE_HARDWARE
                               THEN fn_in.config ELSE -1]
    /\ UNCHANGED <<notFun, fn_in>>

SpecMap == MapInit /\ [][MapCall]_vars

\* C33: for a generic hardware event and any config, armpmu_map_event reads
\* event_map only at positions below PERF_COUNT_HW_MAX, and a config at or
\* beyond PERF_COUNT_HW_MAX is answered with -ENOENT.
C33_EventMapIndexedInBounds ==
    (fn_out.op = "map_event" /\ fn_in.type = PERF_TYPE_HARDWARE) =>
        /\ fn_out.index < PERF_COUNT_HW_MAX
        /\ fn_in.config >= PERF_COUNT_HW_MAX => fn_out.ret = -ENOENT

\* =========================================================================
\* Delta accounting across counter overflows
\*
\* As SpecUpd, and the counter wraps: a wrap raises the overflow interrupt,
\* whose handler (armpmu_event_update with the overflow flag, then
\* armpmu_event_set_period) runs at some later point, between any two
\* statements of a process-context update.  fn_out holds the interrupt
\* state, fn_in the number of handler runs the process-context update had
\* seen when it read the counter.
\* =========================================================================
TickLimit == CounterMod

OvfInit ==
    /\ ResIdle
    /\ num_resources = NumCpus
    /\ irq_ok = 0 .. (NumCpus - 1)
    /\ has_filter = TRUE
    /\ TabQuiet
    /\ \E L \in 1 .. max_period :
          /\ u_hwc = StartedEvent(L).hwc
          /\ u_reg = StartedEvent(L).reg
    /\ u_count = 0
    /\ rd = NoFrame
    /\ uTicks = 0
    /\ uCalls = [proc |-> 0, irq |-> 0]
    /\ fn_in = [op |-> "proc", read_epoch |-> 0]
    /\ fn_out = [op |-> "irq", pending |-> FALSE, handled |-> 0]

\* the hardware counts one event; a wrap raises the overflow interrupt
O_Tick ==
    /\ u_reg.running /\ u_hwc.idx \in u_reg.enabled
    /\ uTicks < TickLimit
    /\ u_reg' = write_counter(u_reg, u_hwc.idx,
                              (read_counter(u_reg, u_hwc.idx) + 1) % CounterMod)
    /\ uTicks' = uTicks + 1
    /\ fn_out' = IF read_counter(u_reg, u_hwc.idx) = CounterMask
                 THEN [fn_out EXCEPT !.pending = TRUE] ELSE fn_out
    /\ UNCHANGED <<resVars, tabVars, u_hwc, u_count, rd, uCalls, fn_in>>

\* new_raw_count = armpmu->read_counter(idx), in process context
O_read_counter ==
    /\ rd.pc = "read_counter"
    /\ rd' = [rd EXCEPT !.pc = "cmpxchg",
                        !.new_raw_count = read_counter(u_reg, u_hwc.idx)]
    /\ fn_in' = [fn_in EXCEPT !.read_epoch = fn_out.handled]
    /\ UNCHANGED <<resVars, tabVars, u_hwc, u_count, u_reg, uTicks, uCalls, fn_out>>

\* the overflow handler for the event's counter, from entry to return
O_overflow ==
    /\ fn_out.pending
    /\ LET S0 == [hwc |-> u_hwc, count |-> u_count, tab |-> ZeroTable, reg |-> u_reg]
           S1 == armpmu_event_update(S0, u_hwc.idx, 1)
           S2 == armpmu_event_set_period(S1, u_hwc.idx).S
       IN  /\ u_hwc' = S2.hwc
           /\ u_count' = S2.count
           /\ u_reg' = S2.reg
    /\ fn_out' = [fn_out EXCEPT !.pending = FALSE, !.handled = @ + 1]
    /\ uCalls' = [uCalls EXCEPT !.irq = @ + 1]
    /\ UNCHANGED <<resVars, tabVars, rd, uTicks, fn_in>>

OvfNext ==
    \/ O_Tick
    \/ U_call
    \/ U_read_prev
    \/ O_read_counter
    \/ U_cmpxchg
    \/ U_add_count
    \/ U_sub_left
    \/ O_overflow

SpecOvf == OvfInit /\ [][OvfNext]_vars

\* C34: across any sequence of updates, from process context and from the
\* overflow handler, the event's cumulative count never decreases, a wrap of
\* the hardware counter between two updates made without the overflow flag
\* included.
C34_CountNeverDecreases == [][u_count' >= u_count]_vars

\* C35: when the overflow handler (update with the overflow flag, then
\* set_period) has run between a process-context update's reads and its
\* compare-and-swap, the compare-and-swap fails and the update retries: a
\* compare-and-swap succeeds only if no handler has run since the update
\* read the hardware counter, so no delta is committed from a counter value
\* read before the counter was reprogrammed, even when set_period stores the
\* shadow value the update had read.
C35_SwapFailsAfterOverflowHandling ==
    [][(rd.pc = "cmpxchg" /\ rd'.pc = "add_count")
          => fn_in.read_epoch = fn_out.handled]_vars

\* =========================================================================
\* Properties of event_init and destroy on several CPUs: the event count
\* =========================================================================
\* the call of armpmu_event_init on CPU p has raised active_events for its
\* event and has neither returned nor given the count back
InitHolds(p) ==
    rh[p].inc /\ pc[p] \in {"EI_unlock", "EI_hwinit", "HD_fast", "HD_lock", "HD_dec"}

\* the framework's hw_perf_event_destroy on CPU q has not yet decremented
DestroyHolds(q) == InDestroy(q) /\ pc[q] \in {"HD_fast", "HD_lock", "HD_dec"}

\* C37: active_events is never negative; it is raised once for each event
\* and lowered once: at every moment it is the number of live events plus
\* the calls of armpmu_event_init that hold a count for an event not yet
\* returned plus the destroy calls that have not yet decremented; so with
\* no call in progress it is the number of events whose armpmu_event_init
\* returned 0 and that are not destroyed.
C37_CountIsLiveEvents ==
    /\ active_events >= 0
    /\ active_events = live + Cardinality({p \in Cpus : InitHolds(p)})
                            + Cardinality({q \in Cpus : DestroyHolds(q)})
    /\ AllIdle => active_events = nAdmit - nDestroy

\* one event is being destroyed while another is being created: both calls
\* hold a count
C37_Witness ==
    /\ \E p \in Cpus : InitHolds(p) /\ pc[p] = "EI_hwinit"
    /\ \E q \in Cpus : DestroyHolds(q)
    /\ live = 0
    /\ active_events = 2

\* =========================================================================
\* event_init and destroy under fair scheduling
\* =========================================================================
\* the steps of a call in progress on CPU p that never wait: every one of
\* them is straight-line code between two points of the call
ResRun(p) ==
    \/ EI_incnz(p)
    \/ EI_check(p)
    \/ RH_loop(p)
    \/ EI_inc(p)
    \/ EI_unlock(p)
    \/ \E e \in ResEvents : EI_hwinit(p, e)
    \/ HD_fast(p)
    \/ HD_dec(p)
    \/ HD_release(p)
    \/ HD_unlock(p)

\* the two places where a call sleeps on reserve_mutex
ResLock(p) == EI_lock(p) \/ HD_lock(p)

\* A CPU inside a call keeps running it (weak fairness); mutex_lock queues
\* its waiters, so a waiter gets a mutex that keeps being released (strong
\* fairness).  The framework is free to stop making calls.
SpecResFair ==
    /\ SpecRes
    /\ \A p \in Cpus : WF_vars(ResRun(p)) /\ SF_vars(ResLock(p))

\* C38: a call of armpmu_event_init or hw_perf_event_destroy that took
\* reserve_mutex has released it when it returns, on the reservation-failure
\* path and on the path that found the count above 0 under the lock as well;
\* a held mutex is released again, and under fair scheduling every call in
\* progress on any CPU returns.
C38_MutexReleasedCallsComplete ==
    /\ [](\A p \in Cpus : pc[p] = "idle" => reserve_mutex # p)
    /\ (reserve_mutex # 0) ~> (reserve_mutex = 0)
    /\ \A p \in Cpus : (pc[p] # "idle") ~> (pc[p] = "idle")

\* a call about to leave by the reservation-failure path still holds the
\* mutex while the other CPU sleeps on it
C38_Witness ==
    \E p \in Cpus, q \in Cpus :
        /\ pc[p] = "EI_unlock" /\ err[p] # 0 /\ reserve_mutex = p
        /\ pc[q] \in {"EI_lock", "HD_lock"}

\* =========================================================================
\* Delta accounting under fair scheduling
\* =========================================================================
\* the statements of the process-context armpmu_event_update
UpdRun ==
    \/ U_read_prev
    \/ U_read_counter
    \/ U_cmpxchg
    \/ U_add_count
    \/ U_sub_left

\* The interrupted armpmu_read goes on when the interrupt returns (weak
\* fairness on its statements); nothing obliges the hardware to count, the
\* caller to read again or an interrupt to arrive.
SpecUpdFair == SpecUpd /\ WF_vars(UpdRun)

\* C39: with finitely many interrupt-context updates of the same shadow
\* value, every process-context armpmu_event_update gets from its retry loop
\* to a swap that succeeds, and from there returns; it returns only from the
\* statement after its one addition to the count, and it adds to the count
\* only straight after a swap that succeeded.
C39_RetryLoopTerminates ==
    /\ (rd.pc \in {"read_prev", "read_counter", "cmpxchg"}) ~> (rd.pc = "add_count")
    /\ (rd.pc # "idle") ~> (rd.pc = "idle")
    /\ [][/\ (rd.pc # "idle" /\ rd'.pc = "idle") => rd.pc = "sub_left"
          /\ (rd.pc # "sub_left" /\ rd'.pc = "sub_left") => rd.pc = "add_count"
          /\ (rd.pc # "add_count" /\ rd'.pc = "add_count")
                => /\ rd.pc = "cmpxchg"
                   /\ u_hwc.prev_count = rd.prev_raw_count]_vars

\* a swap succeeds on the second round of the loop, after an interrupt's
\* update made the first one fail
C39_Witness ==
    /\ rd.pc = "add_count" /\ rd.retried
    /\ uCalls.proc = 1 /\ uCalls.irq >= 1
    /\ u_hwc.prev_count = rd.new_raw_count

====
